---- MODULE Spec2Model ----
(***************************************************************************)
(* State-pattern dispatch cores of the statemachine examples:              *)
(*   tcp::TCPConnection          (tcpexample.h, singleton states)          *)
(*   chat::ChatBot               (chatbot.h, singleton states)             *)
(*   nosingleton::ChatBot        (nosingleton.h, StateSet registry)        *)
(* Pointers are modelled as pairs <<region, object>>; the dynamic type of  *)
(* the pointed-to object selects the handler (virtual dispatch).           *)
(***************************************************************************)
EXTENDS Integers, Sequences, FiniteSets, TLC

VARIABLES
    tcp_live,            \* TCPConnection objects whose constructor has run
    tcp_current_state_,  \* TCPConnection::current_state_, per connection
    tcp_is_server_,      \* TCPConnection::is_server_, per connection
    cerr,                \* lines written to std::cerr
    aborted,             \* an assert() failed and the process was aborted
    demo,                \* the example exercised: "tcp", "chat", "nosingleton"
    state_set_live,      \* the StateSet object has been constructed
    states_,             \* StateSet::states_ (std::map<StateName, State*>)
    bots_live,           \* ChatBot objects whose constructor has run
    current_state_,      \* ChatBot::current_state_, per bot
    state_set_,          \* ChatBot::state_set_, per bot (nosingleton only)
    patient_,            \* ChatBot::patient_, per bot
    cin_ok,              \* std::cin is good (neither failbit nor eofbit set)
    cout_diag,           \* "Error: State does not implement" lines on std::cout
    pc,                  \* where the demo's driver loop stands
    last,                \* the latest ChatBot operation and what it started from
    tcp_last             \* the latest TCPConnection operation, likewise

tcp_vars == <<tcp_live, tcp_current_state_, tcp_is_server_, cerr>>

bot_vars == <<current_state_, state_set_, patient_>>

chat_vars ==
    <<demo, state_set_live, states_, bots_live, bot_vars, cin_ok, cout_diag>>

vars == <<tcp_vars, aborted, chat_vars, pc, last, tcp_last>>

(***************************************************************************)
(* Bounds                                                                  *)
(***************************************************************************)
\* Dispatches stop once this many diagnostic lines are on std::cerr.
MaxCerr == 2

\* Dispatches stop once this many diagnostic lines are on std::cout.
MaxCout == 2

\* The TCPConnection objects of a run.
Conns == {"c1", "c2"}

\* The ChatBot objects of a run.
Bots == {"b1", "b2"}

\* The ages and heights a user types are the numerals of 30..MaxNumber.
MaxNumber == 31

(***************************************************************************)
(* Pointers                                                                *)
(***************************************************************************)
\* A null State* / TCPState* (the `{}` member initializers).
NULL == <<"null", "null">>

\* Outcome of an operation in which assert() failed (no pointer, no object).
ASSERT_FAILED == <<"assert">>

\* The object a function-local static `state` of class cls lives in.
StaticOf(cls) == <<"static", cls>>

(***************************************************************************)
(* tcp: classes, events, handlers                                          *)
(***************************************************************************)
TCPClasses ==
    {"TCPEstablished", "TCPListen", "TCPClosed", "TCPSynSent",
     "TCPSynRecieved", "TCPFinWait1", "TCPFinWait2", "TCPCloseWait",
     "TCPClosing", "TCPLastAck", "TCPTimeWait"}

TCPEvents ==
    {"transmit", "active_open", "passive_open", "close", "synchronize",
     "acknowledge", "send"}

\* X::instance(): the address of the function-local static of class X.
TCPEstablished_instance == StaticOf("TCPEstablished")
TCPListen_instance == StaticOf("TCPListen")
TCPClosed_instance == StaticOf("TCPClosed")
TCPSynSent_instance == StaticOf("TCPSynSent")
TCPSynRecieved_instance == StaticOf("TCPSynRecieved")
TCPFinWait1_instance == StaticOf("TCPFinWait1")
TCPFinWait2_instance == StaticOf("TCPFinWait2")
TCPCloseWait_instance == StaticOf("TCPCloseWait")
TCPClosing_instance == StaticOf("TCPClosing")
TCPLastAck_instance == StaticOf("TCPLastAck")
TCPTimeWait_instance == StaticOf("TCPTimeWait")

\* Every TCPState object of the process.
TCPInstances ==
    {TCPEstablished_instance, TCPListen_instance, TCPClosed_instance,
     TCPSynSent_instance, TCPSynRecieved_instance, TCPFinWait1_instance,
     TCPFinWait2_instance, TCPCloseWait_instance, TCPClosing_instance,
     TCPLastAck_instance, TCPTimeWait_instance}

\* Dynamic type of the object a TCPState* points to.
TCPTypeOf(p) == p[2]

\* The virtual functions each concrete class declares `override`.
TCPOverrides(cls) ==
    CASE cls = "TCPEstablished" -> {"transmit", "close"}
      [] cls = "TCPListen" -> {"send"}
      [] cls = "TCPClosed" -> {"active_open", "passive_open"}
      [] OTHER -> {}

\* The line a default TCPState handler writes to std::cerr.
TCPDefaultDiagnostic(ev) ==
    "Error: current state does not implement TCPState::" \o ev

\* TCPHandlerCalls with TCPEstablished::close closing the connection
\* (change_state(context, TCPClosed::instance())).
TCPHandlerCalls_CloseToClosed(cls, ev) ==
    CASE cls = "TCPEstablished" /\ ev = "transmit" -> <<>>
      [] cls = "TCPEstablished" /\ ev = "close" -> <<StaticOf("TCPClosed")>>
      [] cls = "TCPListen" /\ ev = "send" ->
            <<StaticOf("TCPEstablished"), StaticOf("TCPEstablished")>>
      [] cls = "TCPClosed" /\ ev = "active_open" ->
            <<StaticOf("TCPEstablished"), StaticOf("TCPEstablished")>>
      [] cls = "TCPClosed" /\ ev = "passive_open" -> <<StaticOf("TCPListen")>>
      [] OTHER -> <<>>

\* TCPHandlerCalls with TCPClosed::active_open taking the intermediate step
\* its comment mentions ("send SYN, recieve SYN, ACK") and stopping there.
TCPHandlerCalls_ViaSynSent(cls, ev) ==
    CASE cls = "TCPEstablished" /\ ev = "transmit" -> <<>>
      [] cls = "TCPEstablished" /\ ev = "close" -> <<StaticOf("TCPListen")>>
      [] cls = "TCPListen" /\ ev = "send" ->
            <<StaticOf("TCPEstablished"), StaticOf("TCPEstablished")>>
      [] cls = "TCPClosed" /\ ev = "active_open" ->
            <<StaticOf("TCPEstablished"), StaticOf("TCPSynSent")>>
      [] cls = "TCPClosed" /\ ev = "passive_open" -> <<StaticOf("TCPListen")>>
      [] OTHER -> <<>>

\* TCPHandlerCalls with TCPListen::send resetting the connection
\* (change_state(context, TCPClosed::instance())).
TCPHandlerCalls_SendResets(cls, ev) ==
    CASE cls = "TCPEstablished" /\ ev = "transmit" -> <<>>
      [] cls = "TCPEstablished" /\ ev = "close" -> <<StaticOf("TCPListen")>>
      [] cls = "TCPListen" /\ ev = "send" -> <<StaticOf("TCPClosed")>>
      [] cls = "TCPClosed" /\ ev = "active_open" ->
            <<StaticOf("TCPEstablished"), StaticOf("TCPEstablished")>>
      [] cls = "TCPClosed" /\ ev = "passive_open" -> <<StaticOf("TCPListen")>>
      [] OTHER -> <<>>

\* TCPHandlerCalls with TCPClosed::active_open passing through Listen
\* (change_state(context, TCPListen::instance()) as its first call).
TCPHandlerCalls_ViaListen(cls, ev) ==
    CASE cls = "TCPEstablished" /\ ev = "transmit" -> <<>>
      [] cls = "TCPEstablished" /\ ev = "close" -> <<StaticOf("TCPListen")>>
      [] cls = "TCPListen" /\ ev = "send" ->
            <<StaticOf("TCPEstablished"), StaticOf("TCPEstablished")>>
      [] cls = "TCPClosed" /\ ev = "active_open" ->
            <<StaticOf("TCPListen"), StaticOf("TCPEstablished")>>
      [] cls = "TCPClosed" /\ ev = "passive_open" -> <<StaticOf("TCPListen")>>
      [] OTHER -> <<>>

\* Body of an overriding handler: the change_state arguments, in call order.
TCPHandlerCalls(cls, ev) ==
    CASE cls = "TCPEstablished" /\ ev = "transmit" -> <<>>
      [] cls = "TCPEstablished" /\ ev = "close" -> <<TCPListen_instance>>
      [] cls = "TCPListen" /\ ev = "send" ->
            <<TCPEstablished_instance, TCPEstablished_instance>>
      [] cls = "TCPClosed" /\ ev = "active_open" ->
            <<TCPEstablished_instance, TCPEstablished_instance>>
      [] cls = "TCPClosed" /\ ev = "passive_open" -> <<TCPListen_instance>>
      [] OTHER -> <<>>

\* TCPConnection::change_state: assert(state); current_state_ = state.
\* The result is the new current_state_, or ASSERT_FAILED.
TCPConnection_change_state(cur, state) ==
    IF state = NULL THEN ASSERT_FAILED ELSE state

\* current_state_ after the calls of a handler body run from cur, in order.
RECURSIVE TCPRunCalls(_, _)
TCPRunCalls(cur, calls) ==
    IF calls = <<>> \/ cur = ASSERT_FAILED THEN cur
    ELSE TCPRunCalls(TCPConnection_change_state(cur, Head(calls)), Tail(calls))

\* TCPHandle with default handlers that also reset the connection to Closed.
TCPHandle_DefaultResets(cls, ev, cur) ==
    IF ev \in TCPOverrides(cls)
    THEN [state |-> TCPRunCalls(cur, TCPHandlerCalls(cls, ev)), err |-> <<>>]
    ELSE [state |-> TCPClosed_instance,
          err |-> <<TCPDefaultDiagnostic(ev)>>]

\* current_state_-><ev>(this) on an object of class cls, for a connection
\* whose current_state_ is cur: the resulting current_state_ and the lines
\* written to std::cerr.
TCPHandle(cls, ev, cur) ==
    IF ev \in TCPOverrides(cls)
    THEN [state |-> TCPRunCalls(cur, TCPHandlerCalls(cls, ev)), err |-> <<>>]
    ELSE [state |-> cur, err |-> <<TCPDefaultDiagnostic(ev)>>]

(***************************************************************************)
(* tcp: actions                                                            *)
(***************************************************************************)
\* A TCPConnection constructor that starts a server in Listen.
TCPConnection_ctor_ServerListens(c, is_server) ==
    /\ ~aborted
    /\ demo = "tcp"
    /\ c \notin tcp_live
    /\ tcp_live' = tcp_live \cup {c}
    /\ tcp_is_server_' = [tcp_is_server_ EXCEPT ![c] = is_server]
    /\ tcp_current_state_' =
         [tcp_current_state_ EXCEPT
            ![c] = IF is_server THEN StaticOf("TCPListen")
                   ELSE StaticOf("TCPClosed")]
    /\ UNCHANGED <<cerr, aborted>>

\* TCPConnection::TCPConnection(bool is_server)
TCPConnection_ctor(c, is_server) ==
    /\ ~aborted
    /\ demo = "tcp"
    /\ c \notin tcp_live
    /\ LET r == TCPConnection_change_state(NULL, TCPClosed_instance) IN
         IF r = ASSERT_FAILED
         THEN /\ aborted' = TRUE
              /\ UNCHANGED tcp_vars
         ELSE /\ tcp_live' = tcp_live \cup {c}
              /\ tcp_is_server_' = [tcp_is_server_ EXCEPT ![c] = is_server]
              /\ tcp_current_state_' = [tcp_current_state_ EXCEPT ![c] = r]
              /\ UNCHANGED <<cerr, aborted>>

\* TCPConnection::<ev>(): forwards to current_state_-><ev>(this).
\* A null current_state_ is dereferenced: the process crashes.
TCPDispatch(c, ev) ==
    /\ ~aborted
    /\ demo = "tcp"
    /\ c \in tcp_live
    /\ Len(cerr) < MaxCerr
    /\ IF tcp_current_state_[c] = NULL
       THEN /\ aborted' = TRUE
            /\ UNCHANGED tcp_vars
       ELSE LET r == TCPHandle(TCPTypeOf(tcp_current_state_[c]), ev,
                               tcp_current_state_[c]) IN
              IF r.state = ASSERT_FAILED
              THEN /\ aborted' = TRUE
                   /\ UNCHANGED tcp_vars
              ELSE /\ tcp_current_state_' =
                        [tcp_current_state_ EXCEPT ![c] = r.state]
                   /\ cerr' = cerr \o r.err
                   /\ UNCHANGED <<tcp_live, tcp_is_server_, aborted>>

(***************************************************************************)
(* int, std::string and std::cin                                           *)
(***************************************************************************)
INT_MAX == 2147483647
INT_MIN == -INT_MAX - 1

\* An int object holds a value, or is indeterminate (declared without an
\* initializer and never assigned).
IntObj(v) == <<"int", v>>
Indeterminate == <<"indeterminate">>

\* A std::string is the sequence of its characters; a line of input is the
\* characters before its '\n'. EndOfFile stands for an exhausted stream.
EndOfFile == <<"EOF">>

Digits == <<"0", "1", "2", "3", "4", "5", "6", "7", "8", "9">>

IsDigit(ch) == \E i \in 1..10 : Digits[i] = ch

DigitValue(ch) == (CHOOSE i \in 1..10 : Digits[i] = ch) - 1

\* The decimal numeral of n >= 0, as the user types it.
RECURSIVE Numeral(_)
Numeral(n) ==
    IF n < 10 THEN <<Digits[n + 1]>>
    ELSE Numeral(n \div 10) \o <<Digits[(n % 10) + 1]>>

\* What std::ws skips at the front of a line.
RECURSIVE SkipSpaces(_)
SkipSpaces(s) ==
    IF s # <<>> /\ Head(s) = " " THEN SkipSpaces(Tail(s)) ELSE s

\* The longest prefix of s made of digits.
RECURSIVE DigitPrefix(_)
DigitPrefix(s) ==
    IF s # <<>> /\ IsDigit(Head(s))
    THEN <<Head(s)>> \o DigitPrefix(Tail(s))
    ELSE <<>>

\* ceil(a / 10) for a <= 0
CeilDiv10(a) == (a \div 10) + (IF a % 10 = 0 THEN 0 ELSE 1)

\* num_get accumulation of the digits ds onto acc (kept non-positive so that
\* INT_MIN is representable); limit is INT_MIN for a negative numeral and
\* -INT_MAX otherwise. The result is <<value, overflowed>>.
RECURSIVE Accumulate(_, _, _)
Accumulate(acc, ds, limit) ==
    IF ds = <<>> THEN <<acc, FALSE>>
    ELSE LET d == DigitValue(Head(ds)) IN
         IF acc < CeilDiv10(limit + d) THEN <<limit, TRUE>>
         ELSE Accumulate(acc * 10 - d, Tail(ds), limit)

\* operator>>(int&) on a good stream whose next line is `line`: skip
\* whitespace, read an optional sign and digits. No digits: the value is 0
\* and failbit is set; out of range: the value is INT_MAX or INT_MIN and
\* failbit is set (C++11 num_get).
ParseInt(line) ==
    LET t == SkipSpaces(line)
        neg == t # <<>> /\ Head(t) = "-"
        signed == t # <<>> /\ Head(t) \in {"-", "+"}
        ds == DigitPrefix(IF signed THEN Tail(t) ELSE t)
        r == Accumulate(0, ds, IF neg THEN INT_MIN ELSE -INT_MAX)
    IN  IF ds = <<>> THEN [val |-> 0, ok |-> FALSE]
        ELSE [val |-> IF neg THEN r[1] ELSE -r[1], ok |-> ~r[2]]

\* `getline(std::cin, s)` into a fresh std::string: a failed or exhausted
\* stream extracts nothing (s stays empty, the stream is failed).
GetLine(ok, line) ==
    IF ~ok \/ line = EndOfFile THEN [str |-> <<>>, ok |-> FALSE]
    ELSE [str |-> line, ok |-> TRUE]

\* `std::cin >> x; std::cin.ignore(max, '\n');` where x holds `before`: on a
\* failed or exhausted stream the sentry fails and x is not written.
ExtractInt(ok, line, before) ==
    IF ~ok \/ line = EndOfFile THEN [val |-> before, ok |-> FALSE]
    ELSE LET r == ParseInt(line) IN [val |-> IntObj(r.val), ok |-> r.ok]

\* The values `switch (in)` may see: the value of in, or, when in is
\* indeterminate (undefined behaviour), any int; one value per case label
\* and one for the default label stand for them.
SwitchValues(in) ==
    IF in = Indeterminate THEN 0..5 ELSE {in[2]}

(***************************************************************************)
(* chatbot classes shared by both variants' models                         *)
(***************************************************************************)
\* The 13 concrete state classes (both headers declare the same names).
StateClasses ==
    {"StartState", "MainMenuState", "CollectNameState",
     "CollectAddressState", "CollectAgeState", "CollectHeightState",
     "EditNameState", "EditAddressState", "EditAgeState", "EditHeightState",
     "ConfirmInfoState", "EditOptionsState", "FinishedState"}

\* Patient as default-initialized by ChatBot's constructor: empty strings,
\* ints not initialized.
DefaultPatient ==
    [name |-> <<>>, address |-> <<>>,
     age |-> Indeterminate, height |-> Indeterminate]

\* Result of a handler that did nothing but (possibly) consume input.
Outcome(pat, ok, calls) == [patient |-> pat, ok |-> ok, calls |-> calls]


(***************************************************************************)
(* chat::ChatBot (chatbot.h)                                               *)
(***************************************************************************)
\* X::instance(): the address of the function-local static of class X.
chat_StartState_instance == StaticOf("StartState")
chat_MainMenuState_instance == StaticOf("MainMenuState")
chat_CollectNameState_instance == StaticOf("CollectNameState")
chat_CollectAddressState_instance == StaticOf("CollectAddressState")
chat_CollectAgeState_instance == StaticOf("CollectAgeState")
chat_CollectHeightState_instance == StaticOf("CollectHeightState")
chat_EditNameState_instance == StaticOf("EditNameState")
chat_EditAddressState_instance == StaticOf("EditAddressState")
chat_EditAgeState_instance == StaticOf("EditAgeState")
chat_EditHeightState_instance == StaticOf("EditHeightState")
chat_ConfirmInfoState_instance == StaticOf("ConfirmInfoState")
chat_EditOptionsState_instance == StaticOf("EditOptionsState")
chat_FinishedState_instance == StaticOf("FinishedState")

\* Dynamic type of the object a chat State* points to.
chat_TypeOf(p) == p[2]

\* ChatBot::change_state(State*): assert(state); current_state_ = state.
chat_ChatBot_change_state(cur, state) ==
    IF state = NULL THEN ASSERT_FAILED ELSE state

\* ChatBot::running() comparing with StartState::instance().
chat_ChatBot_running_Start(cur) ==
    <<"bool", cur # chat_StartState_instance>>

\* ChatBot::running(): current_state_ != FinishedState::instance().
chat_ChatBot_running(cur) == <<"bool", cur # chat_FinishedState_instance>>

\* The virtual functions each concrete class declares `override`.
chat_Overrides(cls) ==
    IF cls \in StateClasses THEN {"prompt_user", "process_input"} ELSE {}

\* State::set_patient_*: assign one field of bot->patient_.
chat_State_set_patient_name(pat, name) == [pat EXCEPT !.name = name]
chat_State_set_patient_address(pat, address) == [pat EXCEPT !.address = address]
chat_State_set_patient_age(pat, age) == [pat EXCEPT !.age = age]
chat_State_set_patient_height(pat, height) == [pat EXCEPT !.height = height]

\* X::process_input bodies. pat is bot->patient_, ok the state of std::cin
\* and line its next line; the result is the set of possible outcomes: the
\* patient_ written, the state of std::cin and the change_state arguments
\* in call order.
chat_StartState_process_input(pat, ok, line) ==
    LET r == GetLine(ok, line) IN
      {Outcome(pat, r.ok, <<chat_MainMenuState_instance>>)}

\* MainMenuState::process_input starting a collection on a fresh record
\* (bot->patient_ = Patient{} before the change to CollectNameState).
chat_MainMenuState_process_input_NewPatient(pat, ok, line) ==
    LET r == ExtractInt(ok, line, Indeterminate) IN
      {Outcome(IF in = 1
               THEN [name |-> <<>>, address |-> <<>>,
                     age |-> IntObj(0), height |-> IntObj(0)]
               ELSE pat,
               r.ok,
               CASE in = 1 -> <<chat_CollectNameState_instance>>
                 [] in = 2 -> <<chat_FinishedState_instance>>
                 [] OTHER -> <<>>) : in \in SwitchValues(r.val)}

chat_MainMenuState_process_input(pat, ok, line) ==
    LET r == ExtractInt(ok, line, Indeterminate) IN
      {Outcome(pat, r.ok,
               CASE in = 1 -> <<chat_CollectNameState_instance>>
                 [] in = 2 -> <<chat_FinishedState_instance>>
                 [] OTHER -> <<>>) : in \in SwitchValues(r.val)}

chat_CollectNameState_process_input(pat, ok, line) ==
    LET r == GetLine(ok, line) IN
      {Outcome(chat_State_set_patient_name(pat, r.str), r.ok, <<chat_CollectAddressState_instance>>)}

chat_CollectAddressState_process_input(pat, ok, line) ==
    LET r == GetLine(ok, line) IN
      {Outcome(chat_State_set_patient_address(pat, r.str), r.ok, <<chat_CollectAgeState_instance>>)}

chat_CollectAgeState_process_input(pat, ok, line) ==
    LET r == ExtractInt(ok, line, IntObj(0)) IN
      {Outcome(chat_State_set_patient_age(pat, r.val), r.ok, <<chat_CollectHeightState_instance>>)}

chat_CollectHeightState_process_input(pat, ok, line) ==
    LET r == ExtractInt(ok, line, IntObj(0)) IN
      {Outcome(chat_State_set_patient_height(pat, r.val), r.ok, <<chat_ConfirmInfoState_instance>>)}

\* EditNameState::process_input replacing the whole record by one that
\* holds the new name.
chat_EditNameState_process_input_ReplacesRecord(pat, ok, line) ==
    LET r == GetLine(ok, line) IN
      {Outcome(chat_State_set_patient_name(DefaultPatient, r.str), r.ok,
               <<chat_EditOptionsState_instance>>)}

chat_EditNameState_process_input(pat, ok, line) ==
    LET r == GetLine(ok, line) IN
      {Outcome(chat_State_set_patient_name(pat, r.str), r.ok, <<chat_EditOptionsState_instance>>)}

chat_EditAddressState_process_input(pat, ok, line) ==
    LET r == GetLine(ok, line) IN
      {Outcome(chat_State_set_patient_address(pat, r.str), r.ok, <<chat_EditOptionsState_instance>>)}

chat_EditAgeState_process_input(pat, ok, line) ==
    LET r == ExtractInt(ok, line, IntObj(0)) IN
      {Outcome(chat_State_set_patient_age(pat, r.val), r.ok, <<chat_EditOptionsState_instance>>)}

\* EditHeightState::process_input storing the height with set_patient_age.
chat_EditHeightState_process_input_SetsAge(pat, ok, line) ==
    LET r == ExtractInt(ok, line, IntObj(0)) IN
      {Outcome(chat_State_set_patient_age(pat, r.val), r.ok,
               <<chat_EditOptionsState_instance>>)}

chat_EditHeightState_process_input(pat, ok, line) ==
    LET r == ExtractInt(ok, line, IntObj(0)) IN
      {Outcome(chat_State_set_patient_height(pat, r.val), r.ok, <<chat_EditOptionsState_instance>>)}

\* ConfirmInfoState::process_input with the two case labels exchanged.
chat_ConfirmInfoState_process_input_Swapped(pat, ok, line) ==
    LET r == ExtractInt(ok, line, Indeterminate) IN
      {Outcome(pat, r.ok,
               CASE in = 2 -> <<chat_EditOptionsState_instance>>
                 [] in = 1 -> <<chat_MainMenuState_instance>>
                 [] OTHER -> <<>>) : in \in SwitchValues(r.val)}

chat_ConfirmInfoState_process_input(pat, ok, line) ==
    LET r == ExtractInt(ok, line, Indeterminate) IN
      {Outcome(pat, r.ok,
               CASE in = 1 -> <<chat_EditOptionsState_instance>>
                 [] in = 2 -> <<chat_MainMenuState_instance>>
                 [] OTHER -> <<>>) : in \in SwitchValues(r.val)}

chat_EditOptionsState_process_input_DefaultLeaves(pat, ok, line) ==
    LET r == ExtractInt(ok, line, Indeterminate) IN
      {Outcome(pat, r.ok,
               CASE in = 1 -> <<chat_EditNameState_instance>>
                 [] in = 2 -> <<chat_EditAddressState_instance>>
                 [] in = 3 -> <<chat_EditAgeState_instance>>
                 [] in = 4 -> <<chat_EditHeightState_instance>>
                 [] OTHER -> <<chat_ConfirmInfoState_instance>>) :
           in \in SwitchValues(r.val)}

chat_EditOptionsState_process_input(pat, ok, line) ==
    LET r == ExtractInt(ok, line, Indeterminate) IN
      {Outcome(pat, r.ok,
               CASE in = 1 -> <<chat_EditNameState_instance>>
                 [] in = 2 -> <<chat_EditAddressState_instance>>
                 [] in = 3 -> <<chat_EditAgeState_instance>>
                 [] in = 4 -> <<chat_EditHeightState_instance>>
                 [] in = 5 -> <<chat_ConfirmInfoState_instance>>
                 [] OTHER -> <<>>) : in \in SwitchValues(r.val)}

chat_FinishedState_process_input(pat, ok, line) ==
    {Outcome(pat, ok, <<>>)}

\* Virtual dispatch of process_input on the dynamic type cls.
chat_process_input(cls, pat, ok, line) ==
    CASE cls = "StartState" -> chat_StartState_process_input(pat, ok, line)
      [] cls = "MainMenuState" -> chat_MainMenuState_process_input(pat, ok, line)
      [] cls = "CollectNameState" -> chat_CollectNameState_process_input(pat, ok, line)
      [] cls = "CollectAddressState" -> chat_CollectAddressState_process_input(pat, ok, line)
      [] cls = "CollectAgeState" -> chat_CollectAgeState_process_input(pat, ok, line)
      [] cls = "CollectHeightState" -> chat_CollectHeightState_process_input(pat, ok, line)
      [] cls = "EditNameState" -> chat_EditNameState_process_input(pat, ok, line)
      [] cls = "EditAddressState" -> chat_EditAddressState_process_input(pat, ok, line)
      [] cls = "EditAgeState" -> chat_EditAgeState_process_input(pat, ok, line)
      [] cls = "EditHeightState" -> chat_EditHeightState_process_input(pat, ok, line)
      [] cls = "ConfirmInfoState" -> chat_ConfirmInfoState_process_input(pat, ok, line)
      [] cls = "EditOptionsState" -> chat_EditOptionsState_process_input(pat, ok, line)
      [] cls = "FinishedState" -> chat_FinishedState_process_input(pat, ok, line)

\* Which kind of line X::process_input reads: "line" (getline), "int"
\* (operator>> and ignore) or "none".
chat_Reads(cls) ==
    CASE cls \in {"StartState", "CollectNameState", "CollectAddressState",
                  "EditNameState", "EditAddressState"} -> "line"
      [] cls = "FinishedState" -> "none"
      [] OTHER -> "int"

\* The fields of bot->patient_ for which X::process_input calls
\* State::set_patient_* (on every path through the handler).
chat_Writes(cls) ==
    CASE cls \in {"CollectNameState", "EditNameState"} -> {"name"}
      [] cls \in {"CollectAddressState", "EditAddressState"} -> {"address"}
      [] cls \in {"CollectAgeState", "EditAgeState"} -> {"age"}
      [] cls \in {"CollectHeightState", "EditHeightState"} -> {"height"}
      [] OTHER -> {}


(***************************************************************************)
(* nosingleton::ChatBot (nosingleton.h)                                    *)
(***************************************************************************)
\* enum class StateName
StateName ==
    {"StartState", "MainMenuState", "CollectNameState",
     "CollectAddressState", "CollectAgeState", "CollectHeightState",
     "EditNameState", "EditAddressState", "EditAgeState", "EditHeightState",
     "ConfirmInfoState", "EditOptionsState", "FinishedState"}

\* The address of the StateSet object of run_nosingleton_demo.
StateSetAddr == <<"stack", "state_set">>

\* The address of a state member of the StateSet.
MemberOf(member) == <<"state_set", member>>

\* Declared type of each state member of StateSet.
ns_MemberType(member) ==
    CASE member = "null" -> "null"
      [] member = "start_state_" -> "StartState"
      [] member = "main_menu_state_" -> "MainMenuState"
      [] member = "collect_name_state_" -> "CollectNameState"
      [] member = "collect_address_state_" -> "CollectAddressState"
      [] member = "collect_age_state_" -> "CollectAgeState"
      [] member = "collect_height_state_" -> "CollectHeightState"
      [] member = "edit_name_state_" -> "EditNameState"
      [] member = "edit_address_state_" -> "EditAddressState"
      [] member = "edit_age_state_" -> "EditAgeState"
      [] member = "edit_height_state_" -> "EditHeightState"
      [] member = "confirm_info_state_" -> "ConfirmInfoState"
      [] member = "edit_options_state_" -> "EditOptionsState"
      [] member = "finished_state_" -> "FinishedState"

\* Dynamic type of the object a nosingleton State* points to.
ns_TypeOf(p) == ns_MemberType(p[2])

\* states_[k] = v, as std::map::operator[] followed by assignment does it.
MapAssign(map, k, v) ==
    [x \in (DOMAIN map) \cup {k} |-> IF x = k THEN v ELSE map[x]]

\* The assignments of StateSet::StateSet() with EditHeightState assigned
\* &edit_age_state_.
ns_StateSet_assignments_Duplicate ==
    [i \in 1..13 |->
       LET as == <<"StartState", "MainMenuState", "CollectNameState",
                   "CollectAddressState", "CollectAgeState",
                   "CollectHeightState", "EditNameState", "EditAddressState",
                   "EditAgeState", "EditHeightState", "ConfirmInfoState",
                   "EditOptionsState", "FinishedState">>
           ms == <<"start_state_", "main_menu_state_", "collect_name_state_",
                   "collect_address_state_", "collect_age_state_",
                   "collect_height_state_", "edit_name_state_",
                   "edit_address_state_", "edit_age_state_",
                   "edit_age_state_", "confirm_info_state_",
                   "edit_options_state_", "finished_state_">>
       IN <<as[i], MemberOf(ms[i])>>]

\* The assignments of StateSet::StateSet() without the one of FinishedState.
ns_StateSet_assignments_Missing ==
    <<<<"StartState", MemberOf("start_state_")>>,
      <<"MainMenuState", MemberOf("main_menu_state_")>>,
      <<"CollectNameState", MemberOf("collect_name_state_")>>,
      <<"CollectAddressState", MemberOf("collect_address_state_")>>,
      <<"CollectAgeState", MemberOf("collect_age_state_")>>,
      <<"CollectHeightState", MemberOf("collect_height_state_")>>,
      <<"EditNameState", MemberOf("edit_name_state_")>>,
      <<"EditAddressState", MemberOf("edit_address_state_")>>,
      <<"EditAgeState", MemberOf("edit_age_state_")>>,
      <<"EditHeightState", MemberOf("edit_height_state_")>>,
      <<"ConfirmInfoState", MemberOf("confirm_info_state_")>>,
      <<"EditOptionsState", MemberOf("edit_options_state_")>>>>

\* The assignments of StateSet::StateSet(), in order.
ns_StateSet_assignments ==
    <<<<"StartState", MemberOf("start_state_")>>,
      <<"MainMenuState", MemberOf("main_menu_state_")>>,
      <<"CollectNameState", MemberOf("collect_name_state_")>>,
      <<"CollectAddressState", MemberOf("collect_address_state_")>>,
      <<"CollectAgeState", MemberOf("collect_age_state_")>>,
      <<"CollectHeightState", MemberOf("collect_height_state_")>>,
      <<"EditNameState", MemberOf("edit_name_state_")>>,
      <<"EditAddressState", MemberOf("edit_address_state_")>>,
      <<"EditAgeState", MemberOf("edit_age_state_")>>,
      <<"EditHeightState", MemberOf("edit_height_state_")>>,
      <<"ConfirmInfoState", MemberOf("confirm_info_state_")>>,
      <<"EditOptionsState", MemberOf("edit_options_state_")>>,
      <<"FinishedState", MemberOf("finished_state_")>>>>

\* states_ after the assignments as run from map, in order.
RECURSIVE MapAssignAll(_, _)
MapAssignAll(map, as) ==
    IF as = <<>> THEN map
    ELSE MapAssignAll(MapAssign(map, Head(as)[1], Head(as)[2]), Tail(as))

\* StateSet::get_state handing the state out of its slot (the slot is left
\* null).
ns_StateSet_get_state_Releases(map, name) ==
    [map |-> IF name \in DOMAIN map THEN [map EXCEPT ![name] = NULL]
             ELSE map,
     state |-> IF name \notin DOMAIN map THEN ASSERT_FAILED
               ELSE IF map[name] = NULL THEN ASSERT_FAILED
               ELSE map[name]]

\* StateSet::get_state on a StateSet whose states_ is map: find,
\* assert(iter != end), assert(state). The result is states_ as the call
\* leaves it and the State* returned (ASSERT_FAILED: an assertion failed).
ns_StateSet_get_state(map, name) ==
    [map |-> map,
     state |-> IF name \notin DOMAIN map THEN ASSERT_FAILED
               ELSE IF map[name] = NULL THEN ASSERT_FAILED
               ELSE map[name]]

\* ChatBot::change_state(StateName) with the StateSet remembering the state
\* it handed out last (in the slot of StartState).
ns_ChatBot_change_state_Caches(map, cur, name) ==
    LET r == ns_StateSet_get_state(map, name) IN
      [map |-> IF r.state \in {NULL, ASSERT_FAILED} THEN r.map
               ELSE [r.map EXCEPT !["StartState"] = r.state],
       state |-> IF r.state = NULL THEN ASSERT_FAILED ELSE r.state]

\* ChatBot::change_state(StateName): current_state_ = get_state(name);
\* assert(current_state_). The result is states_ and the new current_state_.
ns_ChatBot_change_state(map, cur, name) ==
    LET r == ns_StateSet_get_state(map, name) IN
      [map |-> r.map,
       state |-> IF r.state = NULL THEN ASSERT_FAILED ELSE r.state]

\* ChatBot::running() with == for !=.
ns_ChatBot_running_Inverted(map, cur) ==
    LET r == ns_StateSet_get_state(map, "FinishedState") IN
      [map |-> r.map,
       result |-> IF r.state = ASSERT_FAILED THEN ASSERT_FAILED
                  ELSE <<"bool", cur = r.state>>]

\* ChatBot::running(): current_state_ != get_state(FinishedState). The
\* result is states_ and <<"bool", value>> (or ASSERT_FAILED).
ns_ChatBot_running(map, cur) ==
    LET r == ns_StateSet_get_state(map, "FinishedState") IN
      [map |-> r.map,
       result |-> IF r.state = ASSERT_FAILED THEN ASSERT_FAILED
                  ELSE <<"bool", cur # r.state>>]

\* The virtual functions each concrete class declares `override`.
ns_Overrides(cls) ==
    IF cls \in StateClasses THEN {"prompt_user", "process_input"} ELSE {}

\* State::set_patient_*: assign one field of bot->patient_.
ns_State_set_patient_name(pat, name) == [pat EXCEPT !.name = name]
ns_State_set_patient_address(pat, address) == [pat EXCEPT !.address = address]
ns_State_set_patient_age(pat, age) == [pat EXCEPT !.age = age]
ns_State_set_patient_height(pat, height) == [pat EXCEPT !.height = height]

\* X::process_input bodies. pat is bot->patient_, ok the state of std::cin
\* and line its next line; the result is the set of possible outcomes: the
\* patient_ written, the state of std::cin and the change_state arguments
\* in call order.
\* StartState::process_input keeping the line it reads as the patient's name.
ns_StartState_process_input_KeepsLine(pat, ok, line) ==
    LET r == GetLine(ok, line) IN
      {Outcome(ns_State_set_patient_name(pat, r.str), r.ok,
               <<"MainMenuState">>)}

ns_StartState_process_input(pat, ok, line) ==
    LET r == GetLine(ok, line) IN
      {Outcome(pat, r.ok, <<"MainMenuState">>)}

ns_MainMenuState_process_input(pat, ok, line) ==
    LET r == ExtractInt(ok, line, Indeterminate) IN
      {Outcome(pat, r.ok,
               CASE in = 1 -> <<"CollectNameState">>
                 [] in = 2 -> <<"FinishedState">>
                 [] OTHER -> <<>>) : in \in SwitchValues(r.val)}

ns_CollectNameState_process_input(pat, ok, line) ==
    LET r == GetLine(ok, line) IN
      {Outcome(ns_State_set_patient_name(pat, r.str), r.ok, <<"CollectAddressState">>)}

\* CollectAddressState::process_input going on to CollectHeightState.
ns_CollectAddressState_process_input_SkipsAge(pat, ok, line) ==
    LET r == GetLine(ok, line) IN
      {Outcome(ns_State_set_patient_address(pat, r.str), r.ok, <<"CollectHeightState">>)}

ns_CollectAddressState_process_input(pat, ok, line) ==
    LET r == GetLine(ok, line) IN
      {Outcome(ns_State_set_patient_address(pat, r.str), r.ok, <<"CollectAgeState">>)}

\* CollectAgeState::process_input storing the age with set_patient_height.
ns_CollectAgeState_process_input_SetsHeight(pat, ok, line) ==
    LET r == ExtractInt(ok, line, IntObj(0)) IN
      {Outcome(ns_State_set_patient_height(pat, r.val), r.ok,
               <<"CollectHeightState">>)}

ns_CollectAgeState_process_input(pat, ok, line) ==
    LET r == ExtractInt(ok, line, IntObj(0)) IN
      {Outcome(ns_State_set_patient_age(pat, r.val), r.ok, <<"CollectHeightState">>)}

ns_CollectHeightState_process_input(pat, ok, line) ==
    LET r == ExtractInt(ok, line, IntObj(0)) IN
      {Outcome(ns_State_set_patient_height(pat, r.val), r.ok, <<"ConfirmInfoState">>)}

ns_EditNameState_process_input(pat, ok, line) ==
    LET r == GetLine(ok, line) IN
      {Outcome(ns_State_set_patient_name(pat, r.str), r.ok, <<"EditOptionsState">>)}

ns_EditAddressState_process_input(pat, ok, line) ==
    LET r == GetLine(ok, line) IN
      {Outcome(ns_State_set_patient_address(pat, r.str), r.ok, <<"EditOptionsState">>)}

ns_EditAgeState_process_input(pat, ok, line) ==
    LET r == ExtractInt(ok, line, IntObj(0)) IN
      {Outcome(ns_State_set_patient_age(pat, r.val), r.ok, <<"EditOptionsState">>)}

ns_EditHeightState_process_input(pat, ok, line) ==
    LET r == ExtractInt(ok, line, IntObj(0)) IN
      {Outcome(ns_State_set_patient_height(pat, r.val), r.ok, <<"EditOptionsState">>)}

ns_ConfirmInfoState_process_input(pat, ok, line) ==
    LET r == ExtractInt(ok, line, Indeterminate) IN
      {Outcome(pat, r.ok,
               CASE in = 1 -> <<"EditOptionsState">>
                 [] in = 2 -> <<"MainMenuState">>
                 [] OTHER -> <<>>) : in \in SwitchValues(r.val)}

ns_EditOptionsState_process_input_NoWayBack(pat, ok, line) ==
    LET r == ExtractInt(ok, line, Indeterminate) IN
      {Outcome(pat, r.ok,
               CASE in = 1 -> <<"EditNameState">>
                 [] in = 2 -> <<"EditAddressState">>
                 [] in = 3 -> <<"EditAgeState">>
                 [] in = 4 -> <<"EditHeightState">>
                 [] OTHER -> <<>>) : in \in SwitchValues(r.val)}

ns_EditOptionsState_process_input(pat, ok, line) ==
    LET r == ExtractInt(ok, line, Indeterminate) IN
      {Outcome(pat, r.ok,
               CASE in = 1 -> <<"EditNameState">>
                 [] in = 2 -> <<"EditAddressState">>
                 [] in = 3 -> <<"EditAgeState">>
                 [] in = 4 -> <<"EditHeightState">>
                 [] in = 5 -> <<"ConfirmInfoState">>
                 [] OTHER -> <<>>) : in \in SwitchValues(r.val)}

\* FinishedState::process_input starting the dialogue over
\* (change_state(bot, StateName::StartState)).
ns_FinishedState_process_input_Restarts(pat, ok, line) ==
    {Outcome(pat, ok, <<"StartState">>)}

ns_FinishedState_process_input(pat, ok, line) ==
    {Outcome(pat, ok, <<>>)}

\* Virtual dispatch of process_input on the dynamic type cls.
ns_process_input(cls, pat, ok, line) ==
    CASE cls = "StartState" -> ns_StartState_process_input(pat, ok, line)
      [] cls = "MainMenuState" -> ns_MainMenuState_process_input(pat, ok, line)
      [] cls = "CollectNameState" -> ns_CollectNameState_process_input(pat, ok, line)
      [] cls = "CollectAddressState" -> ns_CollectAddressState_process_input(pat, ok, line)
      [] cls = "CollectAgeState" -> ns_CollectAgeState_process_input(pat, ok, line)
      [] cls = "CollectHeightState" -> ns_CollectHeightState_process_input(pat, ok, line)
      [] cls = "EditNameState" -> ns_EditNameState_process_input(pat, ok, line)
      [] cls = "EditAddressState" -> ns_EditAddressState_process_input(pat, ok, line)
      [] cls = "EditAgeState" -> ns_EditAgeState_process_input(pat, ok, line)
      [] cls = "EditHeightState" -> ns_EditHeightState_process_input(pat, ok, line)
      [] cls = "ConfirmInfoState" -> ns_ConfirmInfoState_process_input(pat, ok, line)
      [] cls = "EditOptionsState" -> ns_EditOptionsState_process_input(pat, ok, line)
      [] cls = "FinishedState" -> ns_FinishedState_process_input(pat, ok, line)

\* Which kind of line X::process_input reads: "line" (getline), "int"
\* (operator>> and ignore) or "none".
ns_Reads(cls) ==
    CASE cls \in {"StartState", "CollectNameState", "CollectAddressState",
                  "EditNameState", "EditAddressState"} -> "line"
      [] cls = "FinishedState" -> "none"
      [] OTHER -> "int"

\* The fields of bot->patient_ for which X::process_input calls
\* State::set_patient_* (on every path through the handler).
ns_Writes(cls) ==
    CASE cls \in {"CollectNameState", "EditNameState"} -> {"name"}
      [] cls \in {"CollectAddressState", "EditAddressState"} -> {"address"}
      [] cls \in {"CollectAgeState", "EditAgeState"} -> {"age"}
      [] cls \in {"CollectHeightState", "EditHeightState"} -> {"height"}
      [] OTHER -> {}

\* X::prompt_user bodies: what is written to std::cout (the heading, and for
\* ConfirmInfoState the four fields of bot->get_patient_info()).
chat_prompt_user(cls, pat) ==
    CASE cls = "ConfirmInfoState" ->
            <<"Confirm Info is Correct", pat.name, pat.address, pat.age,
              pat.height>>
      [] cls = "FinishedState" -> <<>>
      [] cls = "StartState" -> <<"Welcome">>
      [] cls = "MainMenuState" -> <<"Main Menu">>
      [] cls = "CollectNameState" -> <<"Add Patient Name">>
      [] cls = "CollectAddressState" -> <<"Add Patient Address">>
      [] cls = "CollectAgeState" -> <<"Add Patient Age">>
      [] cls = "CollectHeightState" -> <<"Add Patient Height">>
      [] cls = "EditNameState" -> <<"Edit Patient Name">>
      [] cls = "EditAddressState" -> <<"Edit Patient Address">>
      [] cls = "EditAgeState" -> <<"Edit Patient Age">>
      [] cls = "EditHeightState" -> <<"Edit Patient Height">>
      [] cls = "EditOptionsState" -> <<"Edit Patient Info">>

\* X::prompt_user bodies: what is written to std::cout (the heading, and for
\* ConfirmInfoState the four fields of bot->get_patient_info()).
ns_prompt_user(cls, pat) ==
    CASE cls = "ConfirmInfoState" ->
            <<"Confirm Info is Correct", pat.name, pat.address, pat.age,
              pat.height>>
      [] cls = "FinishedState" -> <<>>
      [] cls = "StartState" -> <<"Welcome">>
      [] cls = "MainMenuState" -> <<"Main Menu">>
      [] cls = "CollectNameState" -> <<"Add Patient Name">>
      [] cls = "CollectAddressState" -> <<"Add Patient Address">>
      [] cls = "CollectAgeState" -> <<"Add Patient Age">>
      [] cls = "CollectHeightState" -> <<"Add Patient Height">>
      [] cls = "EditNameState" -> <<"Edit Patient Name">>
      [] cls = "EditAddressState" -> <<"Edit Patient Address">>
      [] cls = "EditAgeState" -> <<"Edit Patient Age">>
      [] cls = "EditHeightState" -> <<"Edit Patient Height">>
      [] cls = "EditOptionsState" -> <<"Edit Patient Info">>

(***************************************************************************)
(* Input typed by the user                                                 *)
(***************************************************************************)
\* Lines typed where a getline reads.
TextLines == {<<>>, <<"A", "d", "a">>}

\* Lines typed where an age or a height is read.
NumberLines == {Numeral(n) : n \in 30..MaxNumber} \cup {<<"x">>}

\* Lines typed where a menu selection is read.
MenuLines ==
    {Numeral(n) : n \in 1..5}
        \cup {<<" ", "2">>, <<"1", "x">>, <<"7">>, <<"x">>,
              <<"9", "9", "9", "9", "9", "9", "9", "9", "9", "9">>}

\* What std::cin may hold next when X::process_input runs. operator>> skips
\* blank lines, so the next line an int is read from is never blank.
InputLines(cls) ==
    CASE cls \in {"StartState", "CollectNameState", "CollectAddressState",
                  "EditNameState", "EditAddressState"} ->
            TextLines \cup {EndOfFile}
      [] cls \in {"CollectAgeState", "CollectHeightState", "EditAgeState",
                  "EditHeightState"} -> NumberLines \cup {EndOfFile}
      [] cls \in {"MainMenuState", "ConfirmInfoState", "EditOptionsState"} ->
            MenuLines \cup {EndOfFile}
      [] OTHER -> {EndOfFile}

(***************************************************************************)
(* chatbot: operations on the objects                                      *)
(***************************************************************************)
\* Dynamic type of the state object bot b points to.
TypeOf(p) == IF demo = "chat" THEN chat_TypeOf(p) ELSE ns_TypeOf(p)

\* current_state_ after State::change_state(bot, a) for each a of calls.
RECURSIVE chat_RunCalls(_, _)
chat_RunCalls(cur, calls) ==
    IF calls = <<>> \/ cur = ASSERT_FAILED THEN cur
    ELSE chat_RunCalls(chat_ChatBot_change_state(cur, Head(calls)),
                       Tail(calls))

RECURSIVE ns_RunCalls(_, _, _)
ns_RunCalls(map, cur, calls) ==
    IF calls = <<>> \/ cur = ASSERT_FAILED THEN [map |-> map, state |-> cur]
    ELSE LET r == ns_ChatBot_change_state(map, cur, Head(calls)) IN
           ns_RunCalls(r.map, r.state, Tail(calls))

\* states_ and current_state_ after the change_state calls of a handler.
RunCalls(cur, calls) ==
    IF demo = "chat"
    THEN [map |-> states_, state |-> chat_RunCalls(cur, calls)]
    ELSE ns_RunCalls(states_, cur, calls)

\* The handler of request op virtual dispatch selects for class cls.
Overrides(cls) ==
    IF demo = "chat" THEN chat_Overrides(cls) ELSE ns_Overrides(cls)

\* StateSet::StateSet()
Do_StateSet_ctor ==
    /\ ~aborted
    /\ demo = "nosingleton"
    /\ ~state_set_live
    /\ state_set_live' = TRUE
    /\ states_' = MapAssignAll(states_, ns_StateSet_assignments)
    /\ UNCHANGED <<demo, bots_live, bot_vars, cin_ok, cout_diag, aborted>>

\* A ChatBot constructor that does not call change_state.
Do_ChatBot_ctor_NoInitialState(b) ==
    /\ ~aborted
    /\ demo # "tcp"
    /\ b \notin bots_live
    /\ demo = "nosingleton" => state_set_live
    /\ bots_live' = bots_live \cup {b}
    /\ state_set_' =
         [state_set_ EXCEPT
            ![b] = IF demo = "chat" THEN NULL ELSE StateSetAddr]
    /\ patient_' = [patient_ EXCEPT ![b] = DefaultPatient]
    /\ UNCHANGED <<demo, state_set_live, states_, current_state_, cin_ok,
                   cout_diag, aborted>>

\* ChatBot::ChatBot() / ChatBot::ChatBot(StateSet*)
Do_ChatBot_ctor(b) ==
    /\ ~aborted
    /\ demo # "tcp"
    /\ b \notin bots_live
    /\ demo = "nosingleton" => state_set_live
    /\ LET r == IF demo = "chat"
                THEN [map |-> states_,
                      state |-> chat_ChatBot_change_state(
                                    NULL, chat_StartState_instance)]
                ELSE ns_ChatBot_change_state(states_, NULL, "StartState")
       IN IF r.state = ASSERT_FAILED
          THEN /\ aborted' = TRUE
               /\ UNCHANGED chat_vars
          ELSE /\ bots_live' = bots_live \cup {b}
               /\ current_state_' = [current_state_ EXCEPT ![b] = r.state]
               /\ state_set_' =
                    [state_set_ EXCEPT
                       ![b] = IF demo = "chat" THEN NULL ELSE StateSetAddr]
               /\ patient_' = [patient_ EXCEPT ![b] = DefaultPatient]
               /\ states_' = r.map
               /\ UNCHANGED <<demo, state_set_live, cin_ok, cout_diag,
                              aborted>>

\* ChatBot::running() on bot b: states_ as the call leaves it and the
\* result, <<"bool", value>> or ASSERT_FAILED.
Running(b) ==
    IF demo = "chat"
    THEN [map |-> states_, result |-> chat_ChatBot_running(current_state_[b])]
    ELSE ns_ChatBot_running(states_, current_state_[b])

Do_running(b) ==
    /\ ~aborted
    /\ demo # "tcp"
    /\ b \in bots_live
    /\ aborted' = (Running(b).result = ASSERT_FAILED)
    /\ states_' = IF aborted' THEN states_ ELSE Running(b).map
    /\ UNCHANGED <<demo, state_set_live, bots_live, bot_vars, cin_ok,
                   cout_diag>>

\* ChatBot::get_patient_info() on bot b.
Do_get_patient_info(b) ==
    /\ ~aborted
    /\ demo # "tcp"
    /\ b \in bots_live
    /\ UNCHANGED <<chat_vars, aborted>>

\* ChatBot::prompt_user() with ConfirmInfoState::prompt_user moving the
\* strings out of bot->patient_ to render them (name and address are left
\* empty).
Do_prompt_user_MovesRecord(b) ==
    /\ ~aborted
    /\ demo # "tcp"
    /\ b \in bots_live
    /\ cout_diag < MaxCout
    /\ current_state_[b] # NULL
    /\ patient_' =
         [patient_ EXCEPT
            ![b] = IF TypeOf(current_state_[b]) # "ConfirmInfoState" THEN @
                   ELSE [@ EXCEPT !.name = <<>>, !.address = <<>>]]
    /\ UNCHANGED <<demo, state_set_live, states_, bots_live, current_state_,
                   state_set_, cin_ok, cout_diag, aborted>>

\* ChatBot::prompt_user() with StartState::prompt_user going on to the main
\* menu by itself.
Do_prompt_user_Advances(b) ==
    /\ ~aborted
    /\ demo # "tcp"
    /\ b \in bots_live
    /\ cout_diag < MaxCout
    /\ current_state_[b] # NULL
    /\ current_state_' =
         [current_state_ EXCEPT
            ![b] = IF TypeOf(@) # "StartState" THEN @
                   ELSE IF demo = "chat" THEN chat_MainMenuState_instance
                   ELSE MemberOf("main_menu_state_")]
    /\ UNCHANGED <<demo, state_set_live, states_, bots_live, state_set_,
                   patient_, cin_ok, cout_diag, aborted>>

\* ChatBot::prompt_user() on bot b: current_state_->prompt_user(this).
\* A null current_state_ is dereferenced: the process crashes.
Do_prompt_user(b) ==
    /\ ~aborted
    /\ demo # "tcp"
    /\ b \in bots_live
    /\ cout_diag < MaxCout
    /\ IF current_state_[b] = NULL
       THEN /\ aborted' = TRUE
            /\ UNCHANGED chat_vars
       ELSE /\ cout_diag' =
                 IF "prompt_user" \in Overrides(TypeOf(current_state_[b]))
                 THEN cout_diag ELSE cout_diag + 1
            /\ UNCHANGED <<demo, state_set_live, states_, bots_live,
                           bot_vars, cin_ok, aborted>>

\* The outcomes of the process_input handler selected for class cls.
process_input(cls, pat, ok, line) ==
    IF demo = "chat" THEN chat_process_input(cls, pat, ok, line)
    ELSE ns_process_input(cls, pat, ok, line)

\* ChatBot::process_input() with current_state_ a static data member, one
\* for all ChatBot objects.
Do_process_input_StaticState(b, line) ==
    /\ ~aborted
    /\ demo # "tcp"
    /\ b \in bots_live
    /\ cout_diag < MaxCout
    /\ current_state_[b] # NULL
    /\ LET cls == TypeOf(current_state_[b]) IN
         /\ line \in InputLines(cls)
         /\ \E o \in process_input(cls, patient_[b], cin_ok, line) :
              LET r == RunCalls(current_state_[b], o.calls) IN
                /\ r.state # ASSERT_FAILED
                /\ current_state_' = [x \in Bots |->
                      IF x \in bots_live THEN r.state ELSE current_state_[x]]
                /\ patient_' = [patient_ EXCEPT ![b] = o.patient]
                /\ cin_ok' = o.ok
                /\ states_' = r.map
                /\ UNCHANGED <<demo, state_set_live, bots_live, state_set_,
                               cout_diag, aborted>>

\* ChatBot::process_input() on bot b with `line` next on std::cin:
\* current_state_->process_input(this).
Do_process_input(b, line) ==
    /\ ~aborted
    /\ demo # "tcp"
    /\ b \in bots_live
    /\ cout_diag < MaxCout
    /\ IF current_state_[b] = NULL
       THEN /\ aborted' = TRUE
            /\ UNCHANGED chat_vars
       ELSE LET cls == TypeOf(current_state_[b]) IN
            /\ line \in InputLines(cls)
            /\ IF "process_input" \in Overrides(cls)
               THEN \E o \in process_input(cls, patient_[b], cin_ok, line) :
                      LET r == RunCalls(current_state_[b], o.calls) IN
                        IF r.state = ASSERT_FAILED
                        THEN /\ aborted' = TRUE
                             /\ UNCHANGED chat_vars
                        ELSE /\ current_state_' =
                                  [current_state_ EXCEPT ![b] = r.state]
                             /\ patient_' =
                                  [patient_ EXCEPT ![b] = o.patient]
                             /\ cin_ok' = o.ok
                             /\ states_' = r.map
                             /\ UNCHANGED <<demo, state_set_live,
                                            bots_live, state_set_,
                                            cout_diag, aborted>>
               ELSE /\ cout_diag' = cout_diag + 1
                    /\ UNCHANGED <<demo, state_set_live, states_, bots_live,
                                   bot_vars, cin_ok, aborted>>

\* Every line the user may type.
AllLines == TextLines \cup NumberLines \cup MenuLines \cup {EndOfFile}

(***************************************************************************)
(* Initial state: no object constructed yet, std::cin good                 *)
(***************************************************************************)
\* No line: the operation reads none.
NoLine == <<"none">>

\* The requests a ChatBot forwards to its current state.
DispatchOps == {"prompt_user", "process_input"}

\* The member functions of the TCPConnection it handles that the handler of
\* ev selected for class cls calls: the overriding handlers that change the
\* state call TCPState::change_state, which calls context->change_state;
\* the default handlers call nothing.
TCPContextCalls(cls, ev) ==
    IF ev \in TCPOverrides(cls) /\ TCPHandlerCalls(cls, ev) # <<>>
    THEN {"change_state"} ELSE {}

\* The member functions of the ChatBot it handles that X::op calls:
\* ConfirmInfoState::prompt_user calls bot->get_patient_info(), and every
\* process_input but FinishedState's calls State::change_state, which calls
\* bot->change_state (the set_patient_ helpers write bot->patient_ directly).
chat_ContextCalls(cls, op) ==
    CASE op = "prompt_user" /\ cls = "ConfirmInfoState" ->
            {"get_patient_info"}
      [] op = "process_input" /\ cls # "FinishedState" -> {"change_state"}
      [] OTHER -> {}

\* ns_ContextCalls with MainMenuState::process_input prompting again after
\* an invalid selection (bot->prompt_user() in the default branch).
ns_ContextCalls_Reprompts(cls, op) ==
    CASE op = "prompt_user" /\ cls = "ConfirmInfoState" ->
            {"get_patient_info"}
      [] op = "process_input" /\ cls = "MainMenuState" ->
            {"change_state", "prompt_user"}
      [] op = "process_input" /\ cls # "FinishedState" -> {"change_state"}
      [] OTHER -> {}

ns_ContextCalls(cls, op) ==
    CASE op = "prompt_user" /\ cls = "ConfirmInfoState" ->
            {"get_patient_info"}
      [] op = "process_input" /\ cls # "FinishedState" -> {"change_state"}
      [] OTHER -> {}

ContextCalls(cls, op) ==
    IF demo = "chat" THEN chat_ContextCalls(cls, op)
    ELSE ns_ContextCalls(cls, op)

\* The fields of bot->patient_ the handler of class cls writes.
Writes(cls) == IF demo = "chat" THEN chat_Writes(cls) ELSE ns_Writes(cls)

\* `last` before any operation, and after operation op on bot b with `line`
\* next on std::cin: the operation, the state it started from, the member
\* functions of b its handler calls, and the fields of b's patient_ that
\* set_patient_* calls have written since b was constructed, this
\* operation included.
NoOperation ==
    [op |-> "none", bot |-> "none", line |-> NoLine, state |-> NULL,
     patient |-> DefaultPatient, ok |-> TRUE, diag |-> 0, calls |-> {},
     written |-> {}]

Operation(op, b, line) ==
    [op |-> op, bot |-> b, line |-> line, state |-> current_state_[b],
     patient |-> patient_[b], ok |-> cin_ok, diag |-> cout_diag,
     calls |-> IF op \in DispatchOps /\ current_state_[b] # NULL
               THEN ContextCalls(TypeOf(current_state_[b]), op) ELSE {},
     written |-> IF op = "ChatBot" THEN {}
                 ELSE IF op = "process_input" /\ current_state_[b] # NULL
                 THEN last.written \cup Writes(TypeOf(current_state_[b]))
                 ELSE last.written]

\* `tcp_last` before any operation, and after operation op on connection c.
TCPNoOperation ==
    [op |-> "none", conn |-> "none", ev |-> "none", state |-> NULL,
     is_server |-> FALSE, err |-> <<>>, calls |-> {}]

TCPOperation(op, c, ev) ==
    [op |-> op, conn |-> c, ev |-> ev, state |-> tcp_current_state_[c],
     is_server |-> tcp_is_server_[c], err |-> cerr,
     calls |-> IF ev \in TCPEvents /\ tcp_current_state_[c] # NULL
               THEN TCPContextCalls(TCPTypeOf(tcp_current_state_[c]), ev)
               ELSE {}]

Init ==
    /\ tcp_live = {}
    /\ tcp_current_state_ = [c \in Conns |-> NULL]
    /\ tcp_is_server_ = [c \in Conns |-> FALSE]
    /\ cerr = <<>>
    /\ aborted = FALSE
    /\ demo \in {"tcp", "chat", "nosingleton"}
    /\ state_set_live = FALSE
    /\ states_ = <<>>
    /\ bots_live = {}
    /\ current_state_ = [b \in Bots |-> NULL]
    /\ state_set_ = [b \in Bots |-> NULL]
    /\ patient_ = [b \in Bots |-> DefaultPatient]
    /\ cin_ok = TRUE
    /\ cout_diag = 0
    /\ pc = "main"
    /\ last = NoOperation
    /\ tcp_last = TCPNoOperation

(***************************************************************************)
(* Spec: one ChatBot context of either demo, requests dispatched in any    *)
(* order, any line typed                                                   *)
(***************************************************************************)
StateSet_ctor ==
    /\ Do_StateSet_ctor
    /\ UNCHANGED <<tcp_vars, pc, last, tcp_last>>

ChatBot_ctor(b) ==
    /\ Do_ChatBot_ctor(b)
    /\ last' = Operation("ChatBot", b, NoLine)
    /\ UNCHANGED <<tcp_vars, pc, tcp_last>>

running(b) ==
    /\ Do_running(b)
    /\ last' = Operation("running", b, NoLine)
    /\ UNCHANGED <<tcp_vars, pc, tcp_last>>

get_patient_info(b) ==
    /\ Do_get_patient_info(b)
    /\ last' = Operation("get_patient_info", b, NoLine)
    /\ UNCHANGED <<tcp_vars, pc, tcp_last>>

prompt_user(b) ==
    /\ Do_prompt_user(b)
    /\ last' = Operation("prompt_user", b, NoLine)
    /\ UNCHANGED <<tcp_vars, pc, tcp_last>>

ProcessInput(b, line) ==
    /\ Do_process_input(b, line)
    /\ last' = Operation("process_input", b, line)
    /\ UNCHANGED <<tcp_vars, pc, tcp_last>>

Next ==
    \/ StateSet_ctor
    \/ ChatBot_ctor("b1")
    \/ running("b1")
    \/ get_patient_info("b1")
    \/ prompt_user("b1")
    \/ \E line \in AllLines : ProcessInput("b1", line)

Spec == Init /\ [][Next]_vars

(***************************************************************************)
(* SpecShared: the ChatBot contexts Bots of one demo (on one StateSet in   *)
(* the nosingleton demo), requests dispatched on them in any order         *)
(***************************************************************************)
\* The lines typed while several contexts are driven.
SharedLines ==
    {<<"A", "d", "a">>, Numeral(MaxNumber), EndOfFile}
        \cup {Numeral(n) : n \in 1..5} \cup {<<"7">>}

Shared_StateSet_ctor ==
    /\ Do_StateSet_ctor
    /\ UNCHANGED <<tcp_vars, pc, last, tcp_last>>

Shared_ChatBot_ctor(b) ==
    /\ Do_ChatBot_ctor(b)
    /\ UNCHANGED <<tcp_vars, pc, last, tcp_last>>

Shared_running(b) ==
    /\ Do_running(b)
    /\ UNCHANGED <<tcp_vars, pc, last, tcp_last>>

Shared_get_patient_info(b) ==
    /\ Do_get_patient_info(b)
    /\ UNCHANGED <<tcp_vars, pc, last, tcp_last>>

Shared_prompt_user(b) ==
    /\ Do_prompt_user(b)
    /\ UNCHANGED <<tcp_vars, pc, last, tcp_last>>

Shared_process_input(b, line) ==
    /\ Do_process_input(b, line)
    /\ UNCHANGED <<tcp_vars, pc, last, tcp_last>>

NextShared ==
    \/ Shared_StateSet_ctor
    \/ \E b \in Bots : Shared_ChatBot_ctor(b)
    \/ \E b \in Bots : Shared_running(b)
    \/ \E b \in Bots : Shared_get_patient_info(b)
    \/ \E b \in Bots : Shared_prompt_user(b)
    \/ \E b \in Bots, line \in SharedLines : Shared_process_input(b, line)

SpecShared == Init /\ [][NextShared]_vars

(***************************************************************************)
(* SpecDriver: run_chat_demo / run_nosingleton_demo on bot "b1"            *)
(***************************************************************************)
Run_StateSet ==
    /\ pc = "main"
    /\ Do_StateSet_ctor
    /\ pc' = "bot"
    /\ UNCHANGED <<tcp_vars, last, tcp_last>>

Run_ChatBot ==
    /\ pc = IF demo = "chat" THEN "main" ELSE "bot"
    /\ Do_ChatBot_ctor("b1")
    /\ pc' = IF aborted' THEN pc ELSE "while"
    /\ last' = Operation("ChatBot", "b1", NoLine)
    /\ UNCHANGED <<tcp_vars, tcp_last>>

Run_while ==
    /\ pc = "while"
    /\ Do_running("b1")
    /\ pc' = IF aborted' THEN pc
             ELSE IF Running("b1").result[2] THEN "prompt_user"
             ELSE "return"
    /\ last' = Operation("running", "b1", NoLine)
    /\ UNCHANGED <<tcp_vars, tcp_last>>

Run_prompt_user ==
    /\ pc = "prompt_user"
    /\ Do_prompt_user("b1")
    /\ pc' = IF aborted' THEN pc ELSE "process_input"
    /\ last' = Operation("prompt_user", "b1", NoLine)
    /\ UNCHANGED <<tcp_vars, tcp_last>>

\* The loop body followed by another prompt without the running() test
\* (`do { prompt_user(); process_input(); } while (true)` after one test).
Run_process_input_Reprompts(line) ==
    /\ pc = "process_input"
    /\ Do_process_input("b1", line)
    /\ pc' = IF aborted' THEN pc ELSE "prompt_user"
    /\ last' = Operation("process_input", "b1", line)
    /\ UNCHANGED <<tcp_vars, tcp_last>>

Run_process_input(line) ==
    /\ pc = "process_input"
    /\ Do_process_input("b1", line)
    /\ pc' = IF aborted' THEN pc ELSE "while"
    /\ last' = Operation("process_input", "b1", line)
    /\ UNCHANGED <<tcp_vars, tcp_last>>

NextDriver ==
    \/ Run_StateSet
    \/ Run_ChatBot
    \/ Run_while
    \/ Run_prompt_user
    \/ \E line \in AllLines : Run_process_input(line)

SpecDriver == Init /\ [][NextDriver]_vars

(***************************************************************************)
(* SpecTCP: TCPConnection contexts, requests dispatched in any order       *)
(***************************************************************************)
TCP_ctor(c, is_server) ==
    /\ TCPConnection_ctor(c, is_server)
    /\ tcp_last' = TCPOperation("TCPConnection", c, "none")
    /\ UNCHANGED <<chat_vars, pc, last>>

TCP_request(c, ev) ==
    /\ TCPDispatch(c, ev)
    /\ tcp_last' = TCPOperation("request", c, ev)
    /\ UNCHANGED <<chat_vars, pc, last>>

NextTCP ==
    \/ \E c \in Conns, is_server \in BOOLEAN : TCP_ctor(c, is_server)
    \/ \E c \in Conns, ev \in TCPEvents : TCP_request(c, ev)

SpecTCP == Init /\ [][NextTCP]_vars

(***************************************************************************)
(* SpecAny: the contexts of any one of the three examples                  *)
(***************************************************************************)
NextAny == Next \/ NextTCP

SpecAny == Init /\ [][NextAny]_vars

(***************************************************************************)
(* Properties                                                              *)
(***************************************************************************)
\* The state object p is an instance of class cls.
Is(p, cls) == p # NULL /\ TypeOf(p) = cls

\* The latest operation was a process_input on a good std::cin that read
\* `line`, handled by an instance of class cls, and the process lives.
Processed(cls, line) ==
    /\ last.op = "process_input"
    /\ last.ok
    /\ last.line = line
    /\ Is(last.state, cls)
    /\ ~aborted

\* The bot of the latest operation is now in an instance of class cls and
\* holds the patient record pat.
Now(cls, pat) ==
    /\ Is(current_state_[last.bot], cls)
    /\ patient_[last.bot] = pat

\* The protocol table: the class of the state after event ev in class cls.
ProtocolTable(cls, ev) ==
    CASE cls = "TCPClosed" /\ ev = "passive_open" -> "TCPListen"
      [] cls = "TCPClosed" /\ ev = "active_open" -> "TCPEstablished"
      [] cls = "TCPListen" /\ ev = "send" -> "TCPEstablished"
      [] cls = "TCPEstablished" /\ ev = "close" -> "TCPListen"
      [] OTHER -> cls

\* C1: after every request on a TCPConnection (whatever its is_server), the
\* connection is in the state the protocol table gives for the state it was
\* in and the event: Closed -passive_open-> Listen, Closed -active_open->
\* Established, Listen -send-> Established, Established -close-> Listen, and
\* no other pair changes the state.
C1_ProtocolTable ==
    (tcp_last.op = "request" /\ ~aborted) =>
        tcp_current_state_[tcp_last.conn] =
            StaticOf(ProtocolTable(tcp_last.state[2], tcp_last.ev))

\* A server connection has just closed from Established to Listen while the
\* other connection, a client, is Established.
C1_Witness ==
    /\ tcp_last.op = "request"
    /\ tcp_last.ev = "close"
    /\ tcp_last.state = StaticOf("TCPEstablished")
    /\ tcp_is_server_[tcp_last.conn]
    /\ tcp_current_state_[tcp_last.conn] = StaticOf("TCPListen")
    /\ \E c \in tcp_live : /\ ~tcp_is_server_[c]
                           /\ tcp_current_state_[c] = StaticOf("TCPEstablished")

\* The (state, event) pairs a concrete state overrides.
C2_Overridden ==
    {<<"TCPClosed", "active_open">>, <<"TCPClosed", "passive_open">>,
     <<"TCPListen", "send">>, <<"TCPEstablished", "close">>,
     <<"TCPEstablished", "transmit">>}

\* The default diagnostic of each event.
C2_Diagnostic(ev) ==
    CASE ev = "transmit" ->
            "Error: current state does not implement TCPState::transmit"
      [] ev = "active_open" ->
            "Error: current state does not implement TCPState::active_open"
      [] ev = "passive_open" ->
            "Error: current state does not implement TCPState::passive_open"
      [] ev = "close" ->
            "Error: current state does not implement TCPState::close"
      [] ev = "synchronize" ->
            "Error: current state does not implement TCPState::synchronize"
      [] ev = "acknowledge" ->
            "Error: current state does not implement TCPState::acknowledge"
      [] ev = "send" ->
            "Error: current state does not implement TCPState::send"

\* C2: for every one of the 11 x 7 (state, event) pairs that is not
\* overridden, the handler leaves current_state_ as it is and writes the
\* default diagnostic; and after every request of such a pair the
\* connection's state and is_server_ are what they were, the diagnostic is
\* the line added to std::cerr, and the connection is live, in a state
\* object of the machine, and the process has not been aborted.
C2_DefaultHandler ==
    /\ \A cls \in TCPClasses, ev \in TCPEvents :
         <<cls, ev>> \notin C2_Overridden =>
             TCPHandle(cls, ev, StaticOf(cls)) =
                 [state |-> StaticOf(cls), err |-> <<C2_Diagnostic(ev)>>]
    /\ (/\ tcp_last.op = "request"
        /\ <<tcp_last.state[2], tcp_last.ev>> \notin C2_Overridden) =>
            /\ tcp_current_state_[tcp_last.conn] = tcp_last.state
            /\ tcp_is_server_[tcp_last.conn] = tcp_last.is_server
            /\ cerr = Append(tcp_last.err, C2_Diagnostic(tcp_last.ev))
            /\ tcp_last.conn \in tcp_live
            /\ tcp_current_state_[tcp_last.conn] \in TCPInstances
            /\ ~aborted

\* A second unhandled request has been made on a connection: acknowledge in
\* Listen, after an earlier diagnostic.
C2_Witness ==
    /\ tcp_last.op = "request"
    /\ tcp_last.ev = "acknowledge"
    /\ tcp_last.state = StaticOf("TCPListen")
    /\ Len(tcp_last.err) >= 1
    /\ Len(cerr) = Len(tcp_last.err) + 1

\* C3: on a good std::cin, process_input in Start with any line leads to
\* MainMenu; in MainMenu with selection 1 to CollectName; in CollectName with
\* line n to CollectAddress with name = n; in CollectAddress with line a to
\* CollectAge with address = a; in CollectAge with the numeral of g to
\* CollectHeight with age = g; in CollectHeight with the numeral of h to
\* ConfirmInfo with height = h; each step leaves the other fields of the
\* patient record as they were, so the six steps in a row end in ConfirmInfo
\* with the record (n, a, g, h).
C3_Collect ==
    /\ \A L \in TextLines :
         Processed("StartState", L) => Now("MainMenuState", last.patient)
    /\ Processed("MainMenuState", Numeral(1)) =>
         Now("CollectNameState", last.patient)
    /\ \A n \in TextLines :
         Processed("CollectNameState", n) =>
             Now("CollectAddressState", [last.patient EXCEPT !.name = n])
    /\ \A a \in TextLines :
         Processed("CollectAddressState", a) =>
             Now("CollectAgeState", [last.patient EXCEPT !.address = a])
    /\ \A g \in 30..MaxNumber :
         Processed("CollectAgeState", Numeral(g)) =>
             Now("CollectHeightState",
                 [last.patient EXCEPT !.age = IntObj(g)])
    /\ \A h \in 30..MaxNumber :
         Processed("CollectHeightState", Numeral(h)) =>
             Now("ConfirmInfoState",
                 [last.patient EXCEPT !.height = IntObj(h)])

\* The height has just been collected as the last of four fields, all read
\* from a good std::cin, and the bot is in ConfirmInfo with all four.
C3_Witness ==
    /\ Processed("CollectHeightState", Numeral(31))
    /\ cin_ok
    /\ Now("ConfirmInfoState",
           [name |-> <<"A", "d", "a">>, address |-> <<>>,
            age |-> IntObj(30), height |-> IntObj(31)])

\* C4: process_input in ConfirmInfo with selection 2 leads to MainMenu and
\* with selection 1 to EditOptions; the patient record is as it was.
C4_Confirm ==
    /\ Processed("ConfirmInfoState", Numeral(2)) =>
         Now("MainMenuState", last.patient)
    /\ Processed("ConfirmInfoState", Numeral(1)) =>
         Now("EditOptionsState", last.patient)

\* A collected record has just been saved from ConfirmInfo.
C4_Witness ==
    /\ Processed("ConfirmInfoState", Numeral(2))
    /\ Now("MainMenuState", last.patient)
    /\ last.patient.age = IntObj(30)
    /\ last.patient.height = IntObj(31)

\* The Edit state of each entry of the EditOptions menu.
C5_Entry ==
    <<"EditNameState", "EditAddressState", "EditAgeState", "EditHeightState">>

\* C5: process_input in EditOptions with selection k (1..4) leads to the
\* Edit state of field k, record unchanged; process_input there with value v
\* leads back to EditOptions with field k = v and the three other fields
\* unchanged; process_input in EditOptions with selection 5 leads to
\* ConfirmInfo, record unchanged.
C5_Edit ==
    /\ \A k \in 1..4 :
         Processed("EditOptionsState", Numeral(k)) =>
             Now(C5_Entry[k], last.patient)
    /\ \A v \in TextLines :
         /\ Processed("EditNameState", v) =>
              Now("EditOptionsState", [last.patient EXCEPT !.name = v])
         /\ Processed("EditAddressState", v) =>
              Now("EditOptionsState", [last.patient EXCEPT !.address = v])
    /\ \A v \in 30..MaxNumber :
         /\ Processed("EditAgeState", Numeral(v)) =>
              Now("EditOptionsState",
                  [last.patient EXCEPT !.age = IntObj(v)])
         /\ Processed("EditHeightState", Numeral(v)) =>
              Now("EditOptionsState",
                  [last.patient EXCEPT !.height = IntObj(v)])
    /\ Processed("EditOptionsState", Numeral(5)) =>
         Now("ConfirmInfoState", last.patient)

\* The height of a collected record has just been edited from 30 to 31, the
\* age being 30.
C5_Witness ==
    /\ Processed("EditHeightState", Numeral(31))
    /\ last.patient.height = IntObj(30)
    /\ last.patient.age = IntObj(30)
    /\ Now("EditOptionsState", [last.patient EXCEPT !.height = IntObj(31)])

\* C6: in the driver loop, selection 2 in MainMenu makes Finished the
\* current state and running() false; and whenever the current state is
\* Finished, either MainMenu's process_input was the latest operation and
\* the loop is at its running() test, or running() was the latest
\* operation and the loop has ended: neither prompt_user nor process_input
\* is called once Finished is the current state.
C6_Exit ==
    /\ Processed("MainMenuState", Numeral(2)) =>
         /\ Is(current_state_["b1"], "FinishedState")
         /\ Running("b1").result = <<"bool", FALSE>>
         /\ pc = "while"
    /\ ("b1" \in bots_live /\ Is(current_state_["b1"], "FinishedState")) =>
         \/ /\ pc = "while"
            /\ last.op = "process_input"
            /\ Is(last.state, "MainMenuState")
         \/ /\ pc = "return"
            /\ last.op = "running"
    /\ pc = "return" =>
         /\ Is(current_state_["b1"], "FinishedState")
         /\ last.op = "running"

\* The loop has ended after a patient was collected, std::cin still good.
C6_Witness ==
    /\ pc = "return"
    /\ cin_ok
    /\ patient_["b1"].height = IntObj(31)
    /\ Is(current_state_["b1"], "FinishedState")

\* C7: in the nosingleton demo, no operation on one ChatBot (construction,
\* running, get_patient_info, prompt_user, process_input) changes the
\* current state or the patient record of another ChatBot on the same
\* StateSet.
C7_Isolation ==
    [][\A b \in Bots :
         (/\ demo = "nosingleton"
          /\ \/ Shared_ChatBot_ctor(b)
             \/ Shared_running(b)
             \/ Shared_get_patient_info(b)
             \/ Shared_prompt_user(b)
             \/ \E line \in SharedLines : Shared_process_input(b, line))
         => \A o \in Bots \ {b} :
              /\ current_state_'[o] = current_state_[o]
              /\ patient_'[o] = patient_[o]]_vars

\* Two ChatBots on the one StateSet stand in different states with
\* different patient records.
C7_Witness ==
    /\ demo = "nosingleton"
    /\ bots_live = Bots
    /\ state_set_["b1"] = state_set_["b2"]
    /\ Is(current_state_["b1"], "ConfirmInfoState")
    /\ patient_["b1"].height = IntObj(MaxNumber)
    /\ Is(current_state_["b2"], "CollectAddressState")
    /\ patient_["b2"].height = Indeterminate

\* C8: once the StateSet is constructed, get_state succeeds for each of the
\* 13 StateName values, leaves states_ as it is (so a repeated call returns
\* the same instance), and returns different instances for different names.
C8_Registry ==
    state_set_live =>
        /\ Cardinality(StateName) = 13
        /\ \A n \in StateName :
             LET r == ns_StateSet_get_state(states_, n) IN
               /\ r.state # ASSERT_FAILED
               /\ r.state # NULL
               /\ ns_StateSet_get_state(r.map, n).state = r.state
        /\ \A n, m \in StateName :
             n # m => ns_StateSet_get_state(states_, n).state #
                      ns_StateSet_get_state(states_, m).state

\* get_state has been called by several transitions and by running().
C8_Witness ==
    /\ state_set_live
    /\ last.op = "running"
    /\ Is(current_state_["b1"], "EditOptionsState")

\* C9: once the StateSet is constructed, no step changes states_.
C9_Immutable ==
    [][state_set_live => (state_set_live' /\ states_' = states_)]_vars

\* Two ChatBots have been constructed on the StateSet and have made
\* transitions, one of them to Finished.
C9_Witness ==
    /\ state_set_live
    /\ DOMAIN states_ = StateName
    /\ bots_live = Bots
    /\ Is(current_state_["b1"], "FinishedState")
    /\ Is(current_state_["b2"], "EditOptionsState")

\* The state objects of chat::ChatBot and of nosingleton::ChatBot.
C10_ChatInstances == {StaticOf(cls) : cls \in StateClasses}

C10_Members ==
    {"start_state_", "main_menu_state_", "collect_name_state_",
     "collect_address_state_", "collect_age_state_", "collect_height_state_",
     "edit_name_state_", "edit_address_state_", "edit_age_state_",
     "edit_height_state_", "confirm_info_state_", "edit_options_state_",
     "finished_state_"}

\* C10: the current_state_ of every constructed TCPConnection is one of the
\* TCPState singletons, that of every constructed chat::ChatBot one of the
\* 13 State singletons, and that of every constructed nosingleton::ChatBot
\* one of the 13 state members of its StateSet; it is never null.
C10_CurrentStateValid ==
    /\ \A c \in tcp_live :
         /\ tcp_current_state_[c] # NULL
         /\ tcp_current_state_[c] \in TCPInstances
    /\ \A b \in bots_live :
         /\ current_state_[b] # NULL
         /\ demo = "chat" => current_state_[b] \in C10_ChatInstances
         /\ demo = "nosingleton" =>
              current_state_[b] \in {MemberOf(m) : m \in C10_Members}

\* A context has made a transition: a ChatBot is in ConfirmInfo, or a
\* TCPConnection in Listen after a close.
C10_Witness ==
    \/ /\ "b1" \in bots_live
       /\ Is(current_state_["b1"], "ConfirmInfoState")
    \/ /\ tcp_last.ev = "close"
       /\ tcp_last.conn \in tcp_live
       /\ tcp_current_state_[tcp_last.conn] = StaticOf("TCPListen")

\* Every name a handler of class cls may pass to change_state, whatever the
\* line typed, resolves in states_ to a non-null instance.
C11_Resolves(b) ==
    LET cur == current_state_[b] IN
      \A line \in InputLines(TypeOf(cur)) :
        \A o \in process_input(TypeOf(cur), patient_[b], cin_ok, line) :
          /\ \A i \in 1..Len(o.calls) :
               /\ o.calls[i] \in DOMAIN states_
               /\ states_[o.calls[i]] # NULL
          /\ RunCalls(cur, o.calls).state # ASSERT_FAILED

\* C11: in the nosingleton demo no assertion ever fails: the process is
\* never aborted, and in every reachable state the StateName the
\* constructor passes (StartState), the one running() passes
\* (FinishedState) and every name the current state's process_input may
\* pass to change_state are found in states_ with a non-null instance.
C11_NoConsistencyFault ==
    demo = "nosingleton" =>
        /\ ~aborted
        /\ state_set_live =>
             ns_ChatBot_change_state(states_, NULL, "StartState").state
                 # ASSERT_FAILED
        /\ \A b \in bots_live :
             /\ current_state_[b] # NULL
             /\ Running(b).result # ASSERT_FAILED
             /\ C11_Resolves(b)

\* The constructor, transitions up to Finished and running() have all
\* called get_state, and the process lives.
C11_Witness ==
    /\ demo = "nosingleton"
    /\ last.op = "running"
    /\ Is(last.state, "FinishedState")
    /\ ~aborted

\* C12: a prompt_user or process_input dispatched on a ChatBot whose current
\* state is Finished leaves the current state Finished and the patient
\* record as it was, reads nothing from std::cin (its state is unchanged
\* even at end of input) and writes no diagnostic; running() and
\* get_patient_info() do not leave Finished either.
C12_FinishedTerminal ==
    (last.op \in {"prompt_user", "process_input", "running",
                  "get_patient_info"}
     /\ Is(last.state, "FinishedState")) =>
        /\ Now("FinishedState", last.patient)
        /\ cin_ok = last.ok
        /\ cout_diag = last.diag
        /\ ~aborted

\* process_input has been dispatched in Finished at end of input, after a
\* patient was collected; std::cin is still good.
C12_Witness ==
    /\ last.op = "process_input"
    /\ last.line = EndOfFile
    /\ Is(last.state, "FinishedState")
    /\ last.patient.height = IntObj(31)
    /\ cin_ok

\* C13: for every constructed ChatBot, running() returns false exactly when
\* the current state is Finished; and a call of running() leaves the current
\* state and the patient record as they were.
C13_Running ==
    /\ \A b \in bots_live :
         Running(b).result =
             <<"bool", ~Is(current_state_[b], "FinishedState")>>
    /\ last.op = "running" =>
         /\ current_state_[last.bot] = last.state
         /\ patient_[last.bot] = last.patient
         /\ ~aborted

\* running() has been called in Finished, where it returns false, with a
\* collected patient record.
C13_Witness ==
    /\ last.op = "running"
    /\ Is(current_state_["b1"], "FinishedState")
    /\ Running("b1").result = <<"bool", FALSE>>
    /\ patient_["b1"].age = IntObj(30)

\* The states whose process_input writes a field of the patient record.
C14_Writers ==
    {"CollectNameState", "CollectAddressState", "CollectAgeState",
     "CollectHeightState", "EditNameState", "EditAddressState",
     "EditAgeState", "EditHeightState"}

\* C14: every step that changes the patient record of a ChatBot is a
\* process_input dispatched on that ChatBot while its current state is a
\* Collect or an Edit state; construction, running, get_patient_info,
\* prompt_user, the other states' process_input and every operation on
\* another ChatBot leave it as it is.
C14_PatientFrame ==
    [][\A b \in Bots :
         patient_'[b] # patient_[b] =>
             /\ b \in bots_live
             /\ TypeOf(current_state_[b]) \in C14_Writers
             /\ \E line \in SharedLines : Shared_process_input(b, line)]_vars

\* One ChatBot has collected a name while the other, in the main menu,
\* still holds the record it was constructed with.
C14_Witness ==
    /\ bots_live = Bots
    /\ patient_["b1"].name = <<"A", "d", "a">>
    /\ Is(current_state_["b1"], "CollectAgeState")
    /\ patient_["b2"] = DefaultPatient
    /\ Is(current_state_["b2"], "MainMenuState")

\* C15: every step that changes the current state of a context is either
\* its construction or a request dispatched on that same context: a
\* process_input for a ChatBot (never prompt_user, running or
\* get_patient_info), a TCP request for a TCPConnection.
C15_TransitionsInHandlers ==
    [][/\ \A b \in Bots :
            current_state_'[b] # current_state_[b] =>
                \/ b \notin bots_live /\ ChatBot_ctor(b)
                \/ /\ b \in bots_live
                   /\ \E line \in AllLines : ProcessInput(b, line)
       /\ \A c \in Conns :
            tcp_current_state_'[c] # tcp_current_state_[c] =>
                \/ /\ c \notin tcp_live
                   /\ \E is_server \in BOOLEAN : TCP_ctor(c, is_server)
                \/ /\ c \in tcp_live
                   /\ \E ev \in TCPEvents : TCP_request(c, ev)]_vars

\* A prompt_user has been dispatched after transitions and left the state
\* where it was; or a request on one TCPConnection has changed its state
\* while the other connection stays Closed.
C15_Witness ==
    \/ /\ last.op = "prompt_user"
       /\ Is(last.state, "EditOptionsState")
       /\ current_state_[last.bot] = last.state
    \/ /\ tcp_last.op = "request"
       /\ tcp_live = Conns
       /\ tcp_current_state_[tcp_last.conn] = StaticOf("TCPEstablished")
       /\ \E c \in Conns \ {tcp_last.conn} :
            tcp_current_state_[c] = StaticOf("TCPClosed")

C17_RegistryReadOnly ==
    [][\A b \in Bots :
         (/\ demo = "nosingleton"
          /\ \/ Shared_running(b)
             \/ Shared_get_patient_info(b)
             \/ Shared_prompt_user(b)
             \/ \E line \in SharedLines : Shared_process_input(b, line))
         => /\ states_' = states_
            /\ state_set_live' = state_set_live
            /\ state_set_' = state_set_
            /\ bots_live' = bots_live
            /\ \A o \in Bots \ {b} :
                 /\ current_state_'[o] = current_state_[o]
                 /\ patient_'[o] = patient_[o]]_vars

\* Two ChatBots have been driven in turn on the one StateSet, one to the
\* edit menu and one to Finished, and states_ is as the constructor left it.
C17_Witness ==
    /\ demo = "nosingleton"
    /\ bots_live = Bots
    /\ Is(current_state_["b1"], "EditOptionsState")
    /\ Is(current_state_["b2"], "FinishedState")
    /\ states_ = MapAssignAll(<<>>, ns_StateSet_assignments)

\* C18 as stated: in the chat demo with two live ChatBots, a step that
\* changes the current state of one leaves the other in that same new state.
C18_SharedHistory ==
    [][\A b \in Bots :
         (/\ demo = "chat"
          /\ bots_live = Bots
          /\ current_state_'[b] # current_state_[b])
         => \A o \in Bots \ {b} : current_state_'[o] = current_state_'[b]]_vars

\* C18, amended: in the chat demo the ChatBots point to the same 13
\* singleton instances, but each has its own current_state_ and patient_:
\* no operation on one ChatBot changes the current state or the patient
\* record of the other.
C18_OwnHistory ==
    [][demo = "chat" =>
         /\ \A b \in bots_live : current_state_[b] \in C10_ChatInstances
         /\ \A b \in Bots :
              (\/ Shared_ChatBot_ctor(b)
               \/ Shared_running(b)
               \/ Shared_get_patient_info(b)
               \/ Shared_prompt_user(b)
               \/ \E line \in SharedLines : Shared_process_input(b, line))
              => \A o \in Bots \ {b} :
                   /\ current_state_'[o] = current_state_[o]
                   /\ patient_'[o] = patient_[o]]_vars

\* Two chat::ChatBots stand in different singleton states with different
\* patient records.
C18_Witness ==
    /\ demo = "chat"
    /\ bots_live = Bots
    /\ current_state_["b1"] = chat_ConfirmInfoState_instance
    /\ current_state_["b2"] = chat_MainMenuState_instance
    /\ patient_["b1"].name = <<"A", "d", "a">>
    /\ patient_["b2"].name = <<>>

\* C19: the construction of a TCPConnection, with either is_server, leaves
\* it in Closed with nothing written to std::cerr (no event handled);
\* the construction of a ChatBot (both variants) leaves it in Start with
\* the patient record default-initialized (empty name and address, age and
\* height never written), std::cin untouched and no diagnostic written.
C19_InitialState ==
    /\ (tcp_last.op = "TCPConnection" /\ ~aborted) =>
         /\ tcp_last.conn \in tcp_live
         /\ tcp_current_state_[tcp_last.conn] = StaticOf("TCPClosed")
         /\ cerr = tcp_last.err
    /\ (last.op = "ChatBot" /\ ~aborted) =>
         /\ last.bot \in bots_live
         /\ Is(current_state_[last.bot], "StartState")
         /\ patient_[last.bot] =
              [name |-> <<>>, address |-> <<>>,
               age |-> Indeterminate, height |-> Indeterminate]
         /\ cin_ok = last.ok
         /\ cout_diag = last.diag

\* A server connection has just been constructed, after a client one that
\* has since moved on; or a ChatBot has just been constructed.
C19_Witness ==
    \/ /\ tcp_last.op = "TCPConnection"
       /\ tcp_is_server_[tcp_last.conn]
       /\ tcp_current_state_[tcp_last.conn] = StaticOf("TCPClosed")
       /\ \E c \in tcp_live :
            /\ ~tcp_is_server_[c]
            /\ tcp_current_state_[c] = StaticOf("TCPEstablished")
    \/ /\ last.op = "ChatBot"
       /\ Is(current_state_[last.bot], "StartState")

\* The three states a TCPConnection uses.
C20_Used == {"TCPClosed", "TCPListen", "TCPEstablished"}

\* C20: the current state of every constructed TCPConnection is an instance
\* of TCPClosed, TCPListen or TCPEstablished; none of the eight other
\* classes is ever the class of a current state.
C20_UnusedStates ==
    \A c \in tcp_live :
        /\ tcp_current_state_[c] # NULL
        /\ TCPTypeOf(tcp_current_state_[c]) \in C20_Used
        /\ TCPTypeOf(tcp_current_state_[c]) \notin TCPClasses \ C20_Used

\* Requests have been served, some by default handlers, and the two
\* connections are in Listen and Established.
C20_Witness ==
    /\ tcp_live = Conns
    /\ tcp_current_state_["c1"] = StaticOf("TCPListen")
    /\ tcp_current_state_["c2"] = StaticOf("TCPEstablished")
    /\ Len(cerr) >= 1

\* What a process_input outcome o leaves in a ChatBot whose current state
\* was cur: the class of the new current state and the patient record.
ResultOf(cur, o) ==
    LET r == RunCalls(cur, o.calls).state IN
      <<IF r = ASSERT_FAILED THEN "abort" ELSE TypeOf(r), o.patient>>

\* C21: for any two ChatBots (or one ChatBot twice) with the same current
\* state and the same patient record, process_input on the same std::cin
\* (same stream state, same next line) has one result: the same new current
\* state and the same patient record; and a TCP request handled in a state
\* of a given class has one result.
C21_PureHandlers ==
    /\ \A a, b \in bots_live :
         (/\ TypeOf(current_state_[a]) = TypeOf(current_state_[b])
          /\ patient_[a] = patient_[b])
         => \A line \in InputLines(TypeOf(current_state_[a])) :
              \A oa \in process_input(TypeOf(current_state_[a]),
                                      patient_[a], cin_ok, line),
                 ob \in process_input(TypeOf(current_state_[b]),
                                      patient_[b], cin_ok, line) :
                ResultOf(current_state_[a], oa)
                    = ResultOf(current_state_[b], ob)
    /\ \A a, b \in tcp_live, ev \in TCPEvents :
         TCPTypeOf(tcp_current_state_[a]) = TCPTypeOf(tcp_current_state_[b])
         => TCPHandle(TCPTypeOf(tcp_current_state_[a]), ev,
                      tcp_current_state_[a])
              = TCPHandle(TCPTypeOf(tcp_current_state_[b]), ev,
                          tcp_current_state_[b])

\* C22: get_patient_info() and prompt_user, whatever the current state of
\* the ChatBot (each of the 13 classes overrides prompt_user), leave the
\* current state and the four fields of the patient record as they were.
C22_ObserversReadOnly ==
    /\ \A cls \in StateClasses :
         /\ "prompt_user" \in chat_Overrides(cls)
         /\ "prompt_user" \in ns_Overrides(cls)
    /\ last.op \in {"prompt_user", "get_patient_info"} =>
         /\ current_state_[last.bot] = last.state
         /\ patient_[last.bot].name = last.patient.name
         /\ patient_[last.bot].address = last.patient.address
         /\ patient_[last.bot].age = last.patient.age
         /\ patient_[last.bot].height = last.patient.height
         /\ ~aborted

\* ConfirmInfoState::prompt_user has rendered a collected record.
C22_Witness ==
    /\ last.op = "prompt_user"
    /\ Is(last.state, "ConfirmInfoState")
    /\ patient_[last.bot] =
         [name |-> <<"A", "d", "a">>, address |-> <<"A", "d", "a">>,
          age |-> IntObj(31), height |-> IntObj(30)]

\* The field each Collect and Edit state writes and the state it goes to.
C23_Field(cls) ==
    CASE cls \in {"CollectNameState", "EditNameState"} -> "name"
      [] cls \in {"CollectAddressState", "EditAddressState"} -> "address"
      [] cls \in {"CollectAgeState", "EditAgeState"} -> "age"
      [] cls \in {"CollectHeightState", "EditHeightState"} -> "height"

C23_Next(cls) ==
    CASE cls = "CollectNameState" -> "CollectAddressState"
      [] cls = "CollectAddressState" -> "CollectAgeState"
      [] cls = "CollectAgeState" -> "CollectHeightState"
      [] cls = "CollectHeightState" -> "ConfirmInfoState"
      [] OTHER -> "EditOptionsState"

\* C23: a process_input handled by a Collect or an Edit state, whatever the
\* line and the state of std::cin, leaves the three fields of the patient
\* record that are not the state's own as they were, and goes to the next
\* state of the order name, address, age, height, ConfirmInfo (Collect) or
\* back to EditOptions (Edit); on a good stream the state's own field holds
\* the line typed (name, address) or the number typed (age, height).
C23_FieldLevel ==
    \A cls \in C14_Writers :
        (/\ last.op = "process_input"
         /\ Is(last.state, cls)
         /\ ~aborted) =>
            /\ Is(current_state_[last.bot], C23_Next(cls))
            /\ \A f \in {"name", "address", "age", "height"} \ {C23_Field(cls)} :
                 patient_[last.bot][f] = last.patient[f]
            /\ (last.ok /\ last.line \in TextLines
                /\ C23_Field(cls) \in {"name", "address"}) =>
                 patient_[last.bot][C23_Field(cls)] = last.line
            /\ \A v \in 30..MaxNumber :
                 (last.ok /\ last.line = Numeral(v)
                  /\ C23_Field(cls) \in {"age", "height"}) =>
                   patient_[last.bot][C23_Field(cls)] = IntObj(v)

\* The name of a collected record has just been edited; address, age and
\* height are those collected.
C23_Witness ==
    /\ Processed("EditNameState", <<>>)
    /\ last.patient =
         [name |-> <<"A", "d", "a">>, address |-> <<"A", "d", "a">>,
          age |-> IntObj(30), height |-> IntObj(31)]
    /\ Now("EditOptionsState", [last.patient EXCEPT !.name = <<>>])

\* The lines of the model that hold an integer no case label of the menu
\* of class cls names.
C24_Invalid(cls) ==
    IF cls = "EditOptionsState" THEN {Numeral(7)}
    ELSE {Numeral(3), Numeral(4), Numeral(5), Numeral(7)}

\* Further integers without a case label, for the handlers taken alone.
C24_MoreInvalid(cls) ==
    C24_Invalid(cls) \cup {Numeral(0), Numeral(6), Numeral(8), Numeral(10),
                           Numeral(MaxNumber), <<"-", "1">>, <<"-", "2">>}

\* C24: an invalid menu selection is ignored.  After process_input on a
\* good std::cin has read, in MainMenu or ConfirmInfo, an integer other
\* than 1 and 2, or, in EditOptions, an integer outside 1..5, the current
\* state and the patient record are what they were, running() is true and
\* the driver is back at the head of its loop, so that its next iteration
\* prompts the same menu; and the three handlers of both variants, given
\* any such integer, make no call at all on the context.
C24_InvalidIgnored ==
    /\ \A cls \in {"MainMenuState", "ConfirmInfoState", "EditOptionsState"} :
         /\ \A line \in C24_Invalid(cls) :
              Processed(cls, line) =>
                /\ current_state_[last.bot] = last.state
                /\ Now(cls, last.patient)
                /\ cin_ok
                /\ Running(last.bot).result = <<"bool", TRUE>>
                /\ pc = "while"
         /\ \A line \in C24_MoreInvalid(cls) :
              \A o \in chat_process_input(cls, DefaultPatient, TRUE, line)
                         \cup ns_process_input(cls, DefaultPatient, TRUE, line) :
                /\ o.calls = <<>>
                /\ o.patient = DefaultPatient
                /\ o.ok

\* C24's case: EditOptions has read 7 and is still the current state.
C24_Witness ==
    /\ Processed("EditOptionsState", Numeral(7))
    /\ Now("EditOptionsState", last.patient)
    /\ last.patient.height = IntObj(MaxNumber)
    /\ demo = "chat"
    /\ pc = "while"

\* The name of the state a chat::ChatBot in the state of class cls is in
\* after the change_state calls of outcome o ("abort": an assertion failed),
\* the patient record and the state of std::cin the handler leaves.
C25_chat_Result(cls, o) ==
    LET r == chat_RunCalls(StaticOf(cls), o.calls) IN
      <<IF r = ASSERT_FAILED THEN "abort" ELSE chat_TypeOf(r),
        o.patient, o.ok>>

\* The same for a nosingleton::ChatBot whose StateSet is as constructed.
C25_ns_Result(cls, o) ==
    LET map == MapAssignAll(<<>>, ns_StateSet_assignments)
        r == ns_RunCalls(map, map[cls], o.calls).state IN
      <<IF r = ASSERT_FAILED THEN "abort" ELSE ns_TypeOf(r),
        o.patient, o.ok>>

\* C25: the two chatbot variants are equivalent.  Both start in StartState
\* with a default-initialised patient record; from every state name,
\* patient record and state of std::cin a run of either variant reaches,
\* and for every next line, process_input of chat::ChatBot and of
\* nosingleton::ChatBot end in the same state name with the same patient
\* record and the same state of std::cin (so running() stops both loops at
\* the same step).
C25_VariantsEquivalent ==
    \A b \in bots_live :
      current_state_[b] # NULL =>
        LET cls == TypeOf(current_state_[b]) IN
          \A line \in InputLines(cls) :
            \A oc \in chat_process_input(cls, patient_[b], cin_ok, line),
               on \in ns_process_input(cls, patient_[b], cin_ok, line) :
              C25_chat_Result(cls, oc) = C25_ns_Result(cls, on)

\* C26: Finished is entered only from MainMenu with selection 2.  Whenever
\* a process_input handled by a state other than Finished has made
\* FinishedState the current state, that handler was MainMenuState's and it
\* had read the integer 2 from a good std::cin.
C26_FinishedOnlyFromMainMenu ==
    (/\ last.op = "process_input"
     /\ ~aborted
     /\ ~Is(last.state, "FinishedState")
     /\ Is(current_state_[last.bot], "FinishedState"))
    => /\ Is(last.state, "MainMenuState")
       /\ last.ok
       /\ last.line # EndOfFile
       /\ ParseInt(last.line).ok
       /\ ParseInt(last.line).val = 2

\* The state names variant v ("chat" or "nosingleton") can be in after one
\* process_input handled by class cls that reads a line from a good std::cin
\* and leaves it good.
C27_Next(v, cls, pat) ==
    IF cls \notin StateClasses THEN {}
    ELSE IF v = "chat"
    THEN {C25_chat_Result(cls, o)[1] :
            o \in {x \in UNION {chat_process_input(cls, pat, TRUE, line) :
                                  line \in InputLines(cls) \ {EndOfFile}} :
                     x.ok}}
    ELSE {C25_ns_Result(cls, o)[1] :
            o \in {x \in UNION {ns_process_input(cls, pat, TRUE, line) :
                                  line \in InputLines(cls) \ {EndOfFile}} :
                     x.ok}}

\* The state names reachable by finitely many such steps: `seen` with all
\* that is reachable from `frontier`.
RECURSIVE C27_Reach(_, _, _)
C27_Reach(v, seen, frontier) ==
    IF frontier = {} THEN seen
    ELSE LET new == UNION {C27_Next(v, cls, DefaultPatient) :
                             cls \in frontier} \ seen
         IN  C27_Reach(v, seen \cup new, new)

\* C27: there is no trap state.  In both variants, from each of the 12
\* states other than Finished some finite sequence of input lines leads
\* process_input to FinishedState (the handlers taken alone, evaluated
\* where no ChatBot exists yet); and in every state a ChatBot reaches, the
\* states one more line can lead to are those any patient record allows
\* (the choice of next state does not depend on the record), no assertion
\* can fail on the way and Finished is among the states reachable from the
\* current one.
C27_NoTrapState ==
    /\ bots_live = {} =>
         \A v \in {"chat", "nosingleton"} :
           \A cls \in StateClasses \ {"FinishedState"} :
             "FinishedState" \in C27_Reach(v, {cls}, {cls})
    /\ \A b \in bots_live :
         current_state_[b] # NULL =>
           LET cls == TypeOf(current_state_[b])
               reach == C27_Reach(demo, {cls}, {cls}) IN
             /\ C27_Next(demo, cls, patient_[b])
                  = C27_Next(demo, cls, DefaultPatient)
             /\ "abort" \notin reach
             /\ "FinishedState" \in reach

\* C27's case: a ChatBot that went through the collection and back to the
\* main menu has reached Finished by selecting 2.
C27_Witness ==
    /\ Processed("MainMenuState", Numeral(2))
    /\ Now("FinishedState", last.patient)
    /\ last.patient.name = <<"A", "d", "a">>
    /\ last.patient.height = IntObj(MaxNumber)
    /\ cin_ok
    /\ demo = "nosingleton"

\* The states the patient record is looked at or edited in.
C28_ReviewStates ==
    {"ConfirmInfoState", "EditOptionsState", "EditNameState",
     "EditAddressState", "EditAgeState", "EditHeightState"}

\* The fields of the record whose value differs between p and q.
C28_Changed(p, q) ==
    {f \in {"name", "address", "age", "height"} : p[f] # q[f]}

\* C28: whenever the current state of a ChatBot is ConfirmInfo, EditOptions
\* or one of the four Edit states, a handler has called set_patient_* for
\* each of the four fields of its patient record at least once since the
\* ChatBot was constructed (so age and height hold no uninitialized int);
\* and a process_input changes no field its handler does not write.
C28_FieldsWritten ==
    /\ (/\ last.op # "none"
        /\ ~aborted
        /\ last.bot \in bots_live
        /\ current_state_[last.bot] # NULL
        /\ TypeOf(current_state_[last.bot]) \in C28_ReviewStates)
       => /\ last.written = {"name", "address", "age", "height"}
          /\ patient_[last.bot].age # Indeterminate
          /\ patient_[last.bot].height # Indeterminate
    /\ (last.op = "process_input" /\ ~aborted /\ last.state # NULL)
       => /\ C28_Changed(last.patient, patient_[last.bot])
               \subseteq Writes(TypeOf(last.state))
          /\ Writes(TypeOf(last.state)) \subseteq last.written

\* C28's case: the first collection has just ended; CollectHeight wrote the
\* last field that was still uninitialized and ConfirmInfo is current.
C28_Witness ==
    /\ Processed("CollectHeightState", Numeral(MaxNumber))
    /\ Now("ConfirmInfoState",
           [last.patient EXCEPT !.height = IntObj(MaxNumber)])
    /\ last.patient.height = Indeterminate
    /\ last.patient.age # Indeterminate
    /\ last.written = {"name", "address", "age", "height"}

\* The four Collect states.
C29_CollectStates ==
    {"CollectNameState", "CollectAddressState", "CollectAgeState",
     "CollectHeightState"}

\* C29: the patient record is never reset.  Selecting 2 in ConfirmInfo
\* leads to MainMenu and selecting 1 there leads to CollectName, both with
\* the four fields as they were; no process_input of MainMenu or ConfirmInfo
\* changes any field, whatever it reads; and in a collection after the
\* first (the height has been written before), a process_input of a Collect
\* state changes no field but its own, so each field holds its old value
\* until its own Collect state overwrites it.
C29_NeverReset ==
    /\ Processed("ConfirmInfoState", Numeral(2))
         => Now("MainMenuState", last.patient)
    /\ Processed("MainMenuState", Numeral(1))
         => Now("CollectNameState", last.patient)
    /\ (/\ last.op = "process_input"
        /\ ~aborted
        /\ last.state # NULL
        /\ TypeOf(last.state) \in {"MainMenuState", "ConfirmInfoState"})
       => patient_[last.bot] = last.patient
    /\ (/\ last.op = "process_input"
        /\ ~aborted
        /\ last.state # NULL
        /\ TypeOf(last.state) \in C29_CollectStates
        /\ last.patient.height # Indeterminate)
       => /\ C28_Changed(last.patient, patient_[last.bot])
               \subseteq Writes(TypeOf(last.state))
          /\ \A f \in {"age", "height"} \ Writes(TypeOf(last.state)) :
               patient_[last.bot][f] # Indeterminate

\* C29's case: in a second collection the name has been typed again (left
\* empty this time) and the address has just been typed; the age and the
\* height of the first collection are still in the record.
C29_Witness ==
    /\ Processed("CollectAddressState", <<>>)
    /\ Now("CollectAgeState",
           [name |-> <<>>, address |-> <<>>,
            age |-> IntObj(MaxNumber - 1), height |-> IntObj(MaxNumber)])
    /\ last.patient.address = <<"A", "d", "a">>
    /\ demo = "chat"

\* C30: a TCPConnection never returns to Closed.  Every live connection is
\* in Closed, Listen or Established; a request handled outside Closed never
\* makes Closed current; from Listen the connection goes to Established on
\* send and stays in Listen on every other event; from Established it goes
\* to Listen on close and stays in Established on every other event; and
\* close in Listen is unhandled: the state stays Listen and the default
\* diagnostic of close is written to std::cerr.
C30_NeverClosedAgain ==
    /\ \A c \in tcp_live :
         ~aborted =>
           tcp_current_state_[c] \in
             {StaticOf("TCPClosed"), StaticOf("TCPListen"),
              StaticOf("TCPEstablished")}
    /\ (tcp_last.op = "request" /\ ~aborted) =>
         LET before == tcp_last.state
             after == tcp_current_state_[tcp_last.conn] IN
           /\ before # StaticOf("TCPClosed") => after # StaticOf("TCPClosed")
           /\ before = StaticOf("TCPListen") =>
                after = IF tcp_last.ev = "send" THEN StaticOf("TCPEstablished")
                        ELSE StaticOf("TCPListen")
           /\ before = StaticOf("TCPEstablished") =>
                after = IF tcp_last.ev = "close" THEN StaticOf("TCPListen")
                        ELSE StaticOf("TCPEstablished")
           /\ (before = StaticOf("TCPListen") /\ tcp_last.ev = "close") =>
                cerr = Append(tcp_last.err, TCPDefaultDiagnostic("close"))

\* C30's case: close has been requested in Listen on a connection that had
\* written a diagnostic before; it is still in Listen and the diagnostic of
\* close is the latest line on std::cerr.
C30_Witness ==
    /\ tcp_last.op = "request"
    /\ tcp_last.ev = "close"
    /\ tcp_last.state = StaticOf("TCPListen")
    /\ tcp_current_state_[tcp_last.conn] = StaticOf("TCPListen")
    /\ Len(tcp_last.err) = 1
    /\ cerr = Append(tcp_last.err, TCPDefaultDiagnostic("close"))

\* The values current_state_ of a TCPConnection takes while a handler makes
\* the change_state calls `calls` from cur: cur, and the value after each
\* call.
C31_TCPPassed(cur, calls) ==
    {TCPRunCalls(cur, SubSeq(calls, 1, k)) : k \in 0..Len(calls)}

\* The same for a ChatBot.
C31_Passed(cur, calls) ==
    {RunCalls(cur, SubSeq(calls, 1, k)).state : k \in 0..Len(calls)}

\* The change_state calls of the handler of ev in class cls (none for a
\* default handler).
C31_TCPCalls(cls, ev) ==
    IF ev \in TCPOverrides(cls) THEN TCPHandlerCalls(cls, ev) ELSE <<>>

\* C31: a handler leaves its context in the state it started from or in one
\* single successor.  All change_state calls of one handler name the same
\* target (TCPClosed::active_open and TCPListen::send make two calls, every
\* other handler at most one), so after a TCP request or a process_input
\* the values current_state_ has taken during the handler are the state
\* before and the state after, and no third one.
C31_SingleSuccessor ==
    /\ (tcp_last.op = "request" /\ ~aborted /\ tcp_last.state # NULL) =>
         LET calls == C31_TCPCalls(TCPTypeOf(tcp_last.state), tcp_last.ev)
             passed == C31_TCPPassed(tcp_last.state, calls) IN
           /\ \A i, j \in 1..Len(calls) : calls[i] = calls[j]
           /\ passed \subseteq
                {tcp_last.state, tcp_current_state_[tcp_last.conn]}
           /\ tcp_current_state_[tcp_last.conn] \in passed
           /\ Len(calls) =
                IF <<TCPTypeOf(tcp_last.state), tcp_last.ev>> \in
                     {<<"TCPClosed", "active_open">>, <<"TCPListen", "send">>}
                THEN 2
                ELSE IF tcp_current_state_[tcp_last.conn] # tcp_last.state
                THEN 1 ELSE 0
    /\ (last.op = "process_input" /\ ~aborted /\ last.state # NULL) =>
         LET outs == process_input(TypeOf(last.state), last.patient,
                                   last.ok, last.line) IN
           /\ \A o \in outs :
                /\ Len(o.calls) <= 1
                /\ Cardinality(C31_Passed(last.state, o.calls)) <= 2
           /\ \E o \in outs :
                C31_Passed(last.state, o.calls)
                  = {last.state, current_state_[last.bot]}

\* C31's case: active_open has been handled in Closed; the handler made two
\* change_state calls and the connection is Established.
C31_Witness ==
    /\ tcp_last.op = "request"
    /\ tcp_last.ev = "active_open"
    /\ tcp_last.state = StaticOf("TCPClosed")
    /\ ~tcp_last.is_server
    /\ tcp_current_state_[tcp_last.conn] = StaticOf("TCPEstablished")
    /\ Len(C31_TCPCalls("TCPClosed", "active_open")) = 2

\* C32: in the driver loop prompt_user and process_input strictly
\* alternate, starting with prompt_user, and the state that handles a
\* process_input is the state that handled the prompt_user just before it.
\* Every prompt_user directly follows a running() test and every
\* process_input directly follows a prompt_user that left the current state
\* as it was; every running() test directly follows the construction of the
\* ChatBot (the first test) or a process_input, so none is made between a
\* prompt_user and its process_input; and nothing follows a running() test
\* but a prompt_user.
C32_Alternation ==
    [][/\ last'.op = "prompt_user" => last.op = "running"
       /\ last'.op = "process_input" =>
            /\ last.op = "prompt_user"
            /\ last'.bot = last.bot
            /\ last'.state = last.state
            /\ current_state_[last.bot] = last.state
       /\ last'.op = "running" => last.op \in {"ChatBot", "process_input"}
       /\ last.op = "running" => last'.op \in {"running", "prompt_user"}
       /\ (last.op = "running" /\ last'.op = "prompt_user") =>
            /\ Running(last.bot).result = <<"bool", TRUE>>
            /\ last'.state = last.state]_vars

\* C32's case: in a later iteration of the loop ConfirmInfo was prompted
\* and has consumed the selection 1; the loop is back at its running() test
\* with EditOptions current.
C32_Witness ==
    /\ pc = "while"
    /\ Processed("ConfirmInfoState", Numeral(1))
    /\ Now("EditOptionsState", last.patient)
    /\ cin_ok

====
